---- MODULE Spec2Model ----
(***************************************************************************)
(* Products Demo API: the Express request pipeline (rate limiting,         *)
(* validation, authentication gates, route handlers, error normalisation), *)
(* the credential service, the product service and the stored procedures   *)
(* they call, the request timeout guard and the connection pool.           *)
(*                                                                         *)
(* Conventions of the model:                                               *)
(*  - a JavaScript object is a TLA+ function whose domain is the set of    *)
(*    keys that are defined; a key whose value is `undefined` is absent    *)
(*    from the domain (which is also what JSON.stringify emits);           *)
(*  - `null` is the value Null;                                            *)
(*  - a header value is a sequence of chunks, the chunk " " being one      *)
(*    space character and every other chunk a run of non-space characters; *)
(*  - a recordset is a sequence of rows;                                   *)
(*  - prices are whole numbers (currency units).                           *)
(***************************************************************************)
EXTENDS Integers, Sequences, FiniteSets, TLC

VARIABLES
    phase,       \* "idle" | "chain" | "unmatched" | "error" | "errorHandler" | "done"
    req,         \* the request object (route, headers, params, query, body, user)
    step,        \* position in the route's middleware chain
    res,         \* the responses written for the current request, in order
    err,         \* the error handed to next(err); <<>> when none
    trace,       \* names of the middlewares and handlers invoked, in order
    storeCalls,  \* store calls issued while serving the current request
    products,    \* table Products: id -> row
    nextProductId, \* the IDENTITY counter of table Products
    users,       \* table Users: id -> row
    svcPc,       \* product service call: "idle" | "check" | "mutate" | "done"
    svcCall,     \* product service call: [op, id, data]
    svcExisting, \* product service call: the row read by the existence check
    svcCalls,    \* product service call: store procedures executed, in order
    svcResult,   \* product service call: the value returned or the error thrown
    timer,       \* the request timeout timer: "off" | "armed" | "fired"
    pool,        \* DatabaseConnection.pool: <<>> (null) or <<[connected]>>
    connecting,  \* DatabaseConnection.connecting
    poolPc,      \* per caller of getPool(): where the call stands
    poolGot      \* per caller of getPool(): the pool returned to it

vars == <<phase, req, step, res, err, trace, storeCalls, products,
          nextProductId, users, svcPc, svcCall, svcExisting, svcCalls, svcResult,
          timer, pool, connecting, poolPc, poolGot>>

pipeVars == <<phase, req, step, res, err, trace, storeCalls>>
svcVars == <<svcPc, svcCall, svcExisting, svcCalls, svcResult>>
dbVars == <<pool, connecting, poolPc, poolGot>>

(***************************************************************************)
(* Bounds                                                                  *)
(***************************************************************************)
\* Largest id the Products IDENTITY counter hands out.
MaxProductId == 2

(***************************************************************************)
(* Values                                                                  *)
(***************************************************************************)
Null == "null"

\* The requests that may be inside getPool() at the same time.
PoolCallers == {1, 2, 3}
Now == "now"
T0 == "t0"

\* o with key k set to v (an object literal / spread of one key).
With(o, k, v) == [x \in (DOMAIN o) \cup {k} |-> IF x = k THEN v ELSE o[x]]

\* The empty object {}.
EmptyObj == [x \in {} |-> Null]

Has(o, k) == k \in DOMAIN o

(***************************************************************************)
(* Store: tables and stored procedures                                     *)
(***************************************************************************)
InitialProducts ==
    (1 :> [id |-> 1, name |-> "Widget", description |-> "Old", price |-> 100,
           category |-> "Tools", createdAt |-> T0, updatedAt |-> T0])

InitialUsers ==
    (1 :> [id |-> 1, username |-> "alice", email |-> "alice@example.com",
           passwordHash |-> <<"bcrypt", "pw1">>, createdAt |-> T0, updatedAt |-> T0])

\* Columns returned by the SELECT of GetProductById.
SP_GetProductById(P, Id) ==
    IF Id \in DOMAIN P THEN <<P[Id]>> ELSE <<>>

\* CreateProduct: INSERT, then EXEC GetProductById on SCOPE_IDENTITY().
SP_CreateProduct(P, nextId, in) ==
    LET row == [id |-> nextId, name |-> in.Name, description |-> in.Description,
                price |-> in.Price, category |-> in.Category,
                createdAt |-> Now, updatedAt |-> Now]
        P2 == [x \in (DOMAIN P) \cup {nextId} |-> IF x = nextId THEN row ELSE P[x]]
    IN  [raised |-> FALSE, products |-> P2, recordset |-> SP_GetProductById(P2, nextId)]

\* UpdateProduct: RAISERROR when the row is absent, else UPDATE and re-read.
SP_UpdateProduct(P, in) ==
    IF in.Id \notin DOMAIN P
    THEN [raised |-> TRUE, message |-> "Product not found", products |-> P,
          recordset |-> <<>>]
    ELSE LET P2 == [P EXCEPT ![in.Id] =
                      [@ EXCEPT !.name = in.Name, !.description = in.Description,
                                !.price = in.Price, !.category = in.Category,
                                !.updatedAt = Now]]
         IN  [raised |-> FALSE, products |-> P2,
              recordset |-> SP_GetProductById(P2, in.Id)]

\* DeleteProduct without its existence check: a DELETE that may match no row.
SP_DeleteProductNoCheck(P, in) ==
    [raised |-> FALSE, products |-> [x \in (DOMAIN P) \ {in.Id} |-> P[x]],
     recordset |-> <<[Message |-> "Product deleted successfully"]>>]

\* DeleteProduct: RAISERROR when the row is absent, else DELETE.
SP_DeleteProduct(P, in) ==
    IF in.Id \notin DOMAIN P
    THEN [raised |-> TRUE, message |-> "Product not found", products |-> P,
          recordset |-> <<>>]
    ELSE [raised |-> FALSE, products |-> [x \in (DOMAIN P) \ {in.Id} |-> P[x]],
          recordset |-> <<[Message |-> "Product deleted successfully"]>>]

\* GetUserByUsername: all columns, passwordHash included.
SP_GetUserByUsername(U, Username) ==
    LET ids == {i \in DOMAIN U : U[i].username = Username}
    IN  IF ids = {} THEN <<>> ELSE <<U[CHOOSE i \in ids : TRUE]>>

\* The columns of the row a SELECT without passwordHash returns.
PublicColumns(row) ==
    [id |-> row.id, username |-> row.username, email |-> row.email,
     createdAt |-> row.createdAt, updatedAt |-> row.updatedAt]

\* CreateUser: RAISERROR on a duplicate username or email, else INSERT and
\* return the new row without its password hash.
SP_CreateUser(U, in) ==
    IF \E i \in DOMAIN U : U[i].username = in.Username \/ U[i].email = in.Email
    THEN [raised |-> TRUE, message |-> "Username or email already exists",
          users |-> U, recordset |-> <<>>]
    ELSE LET newId == Cardinality(DOMAIN U) + 1
             row == [id |-> newId, username |-> in.Username, email |-> in.Email,
                     passwordHash |-> in.PasswordHash,
                     createdAt |-> Now, updatedAt |-> Now]
             U2 == [x \in (DOMAIN U) \cup {newId} |-> IF x = newId THEN row ELSE U[x]]
         IN  [raised |-> FALSE, users |-> U2, recordset |-> <<PublicColumns(row)>>]

\* SELECT id, username, email, createdAt, updatedAt FROM Users WHERE id = @userId
Q_UserById(U, userId) ==
    IF userId \in DOMAIN U THEN <<PublicColumns(U[userId])>> ELSE <<>>

(***************************************************************************)
(* Errors                                                                  *)
(***************************************************************************)
\* new Error(message)
PlainError(message) == [class |-> "Error", name |-> "Error", message |-> message]

\* new AppError(message, statusCode, code)
\* (code = "" stands for an omitted code argument: code || 'INTERNAL_ERROR')
AppError(message, statusCode, code) ==
    [class |-> "AppError", name |-> "Error", message |-> message,
     statusCode |-> statusCode,
     code |-> IF code = "" THEN "INTERNAL_ERROR" ELSE code,
     isOperational |-> TRUE]

IsAppError(e) == e.class = "AppError"

NoError == [class |-> "none"]

\* A call that returned v / a call that threw e.
Returned(v) == [threw |-> FALSE, value |-> v]
Threw(e) == [threw |-> TRUE, error |-> e]

(***************************************************************************)
(* DatabaseConnection                                                      *)
(***************************************************************************)
\* `Stored procedure execution failed: ${error.message}`
SPFailedMessage(cause) ==
    CASE cause = "Product not found" ->
           "Stored procedure execution failed: Product not found"
      [] cause = "Username or email already exists" ->
           "Stored procedure execution failed: Username or email already exists"
      [] OTHER -> "Stored procedure execution failed: Connection lost"

\* executeStoredProcedure: dbOk = FALSE is a failure of the pool or the
\* network (the procedure did not run); sp is what the procedure did.
ExecuteStoredProcedure(dbOk, sp) ==
    IF ~dbOk THEN Threw(PlainError(SPFailedMessage("Connection lost")))
    ELSE IF sp.raised THEN Threw(PlainError(SPFailedMessage(sp.message)))
    ELSE Returned([recordset |-> sp.recordset])

\* executeQuery: the same wrapper around a raw query.
ExecuteQuery(dbOk, recordset) ==
    IF ~dbOk THEN Threw(PlainError("Query execution failed: Connection lost"))
    ELSE Returned([recordset |-> recordset])

\* A read-only procedure never raises.
ReadOnly(recordset) == [raised |-> FALSE, recordset |-> recordset]

(***************************************************************************)
(* Credential service (AuthService)                                        *)
(***************************************************************************)
\* bcrypt.hash(password, saltRounds)
BcryptHash(password) == <<"bcrypt", password>>

\* bcrypt.compare(password, hash)
BcryptCompare(password, hash) == hash = <<"bcrypt", password>>

\* authConfig.jwtExpiresIn
JwtExpiresIn == "24h"

\* What jwt.verify finds in each token string signed or forged so far:
\* "ok" with its payload, or the name of the error it throws.
TokenTable ==
    [tokA    |-> [verify |-> "ok",
                  payload |-> [userId |-> 1, username |-> "alice",
                               email |-> "alice@example.com"]],
     tokB    |-> [verify |-> "ok",
                  payload |-> [userId |-> 2, username |-> "bob",
                               email |-> "bob@example.com"]],
     tokGone |-> [verify |-> "ok",
                  payload |-> [userId |-> 7, username |-> "carol",
                               email |-> "carol@example.com"]],
     tokOld  |-> [verify |-> "ok",
                  payload |-> [userId |-> 1, username |-> "alice",
                               email |-> "alice@old.example.com"]],
     tokExp  |-> [verify |-> "TokenExpiredError"],
     junk    |-> [verify |-> "JsonWebTokenError"],
     tokNbf  |-> [verify |-> "NotBeforeError"]]

\* jwt.verify(token, secret): a token is the sequence of chunks after the
\* space; only a single chunk found in the table can verify.
JwtVerify(token) ==
    IF Len(token) = 1 /\ token[1] \in DOMAIN TokenTable
    THEN TokenTable[token[1]]
    ELSE [verify |-> "JsonWebTokenError"]

\* verifyToken that tells an expired token no different from a forged one.
VerifyTokenExpiredAsInvalid(token) ==
    LET v == JwtVerify(token)
    IN  IF v.verify = "ok" THEN Returned(v.payload)
        ELSE IF v.verify \in {"TokenExpiredError", "JsonWebTokenError"}
        THEN Threw(PlainError("Invalid token"))
        ELSE Threw(PlainError("Token verification failed"))

\* AuthService.verifyToken
VerifyToken(token) ==
    LET v == JwtVerify(token)
    IN  IF v.verify = "ok" THEN Returned(v.payload)
        ELSE IF v.verify = "TokenExpiredError" THEN Threw(PlainError("Token expired"))
        ELSE IF v.verify = "JsonWebTokenError" THEN Threw(PlainError("Invalid token"))
        ELSE Threw(PlainError("Token verification failed"))

\* AuthService.generateToken: jwt.sign of {userId, username, email}.
GenerateToken(payload) ==
    LET jwtPayload == [userId |-> payload.userId, username |-> payload.username,
                       email |-> payload.email]
    IN  CHOOSE t \in DOMAIN TokenTable :
            TokenTable[t].verify = "ok" /\ TokenTable[t].payload = jwtPayload

\* The response object with the row handed on as the user.
AuthResponseWholeRow(user) ==
    [user |-> user,
     token |-> GenerateToken([userId |-> user.id, username |-> user.username,
                              email |-> user.email]),
     expiresIn |-> JwtExpiresIn]

\* The {user, token, expiresIn} object built by register, login and refresh.
AuthResponse(user) ==
    [user |-> [id |-> user.id, username |-> user.username, email |-> user.email,
               createdAt |-> user.createdAt, updatedAt |-> user.updatedAt],
     token |-> GenerateToken([userId |-> user.id, username |-> user.username,
                              email |-> user.email]),
     expiresIn |-> JwtExpiresIn]

\* error.message.includes('already exists')
IncludesAlreadyExists(message) ==
    message \in {"Username or email already exists",
                 "Stored procedure execution failed: Username or email already exists"}

\* AuthService.register. Result: what it returns or throws, and the table.
Register(U, userData, dbOk) ==
    LET sp == SP_CreateUser(U, [Username |-> userData.username,
                                Email |-> userData.email,
                                PasswordHash |-> BcryptHash(userData.password)])
        result == ExecuteStoredProcedure(dbOk, sp)
        body == IF result.threw THEN result
                ELSE IF result.value.recordset = <<>>
                     THEN Threw(PlainError("Failed to create user"))
                ELSE Returned(AuthResponse(result.value.recordset[1]))
        out == IF ~body.threw THEN body
               ELSE IF IncludesAlreadyExists(body.error.message)
                    THEN Threw(PlainError("Username or email already exists"))
               ELSE body
    IN  [out |-> out, users |-> IF dbOk THEN sp.users ELSE U]

\* AuthService.login
Login(U, loginData, dbOk) ==
    LET result == ExecuteStoredProcedure(
                      dbOk, ReadOnly(SP_GetUserByUsername(U, loginData.username)))
        body == IF result.threw THEN result
                ELSE IF result.value.recordset = <<>>
                     THEN Threw(PlainError("Invalid credentials"))
                ELSE LET user == result.value.recordset[1]
                     IN  IF ~Has(user, "passwordHash")
                         THEN Threw(PlainError("Invalid user data"))
                         ELSE IF ~BcryptCompare(loginData.password, user.passwordHash)
                         THEN Threw(PlainError("Invalid credentials"))
                         ELSE Returned(AuthResponse(user))
    IN  IF ~body.threw THEN body
        ELSE IF body.error.message = "Invalid credentials" THEN body
        ELSE Threw(PlainError("Login failed"))

\* AuthService.getUserById: the row, or null when absent or when the query fails.
GetUserById(U, userId, dbOk) ==
    LET result == ExecuteQuery(dbOk, Q_UserById(U, userId))
    IN  IF result.threw THEN <<>>
        ELSE result.value.recordset

\* refreshToken that signs the old token's claims again.
RefreshTokenFromClaims(U, currentToken, dbOk) ==
    LET decoded == VerifyToken(currentToken)
        user == IF decoded.threw THEN <<>>
                ELSE GetUserById(U, decoded.value.userId, dbOk)
    IN  IF decoded.threw \/ user = <<>>
        THEN Threw(PlainError("Token refresh failed"))
        ELSE Returned([user |-> [id |-> decoded.value.userId,
                                 username |-> decoded.value.username,
                                 email |-> decoded.value.email,
                                 createdAt |-> user[1].createdAt,
                                 updatedAt |-> user[1].updatedAt],
                       token |-> GenerateToken(decoded.value),
                       expiresIn |-> JwtExpiresIn])

\* AuthService.refreshToken
RefreshToken(U, currentToken, dbOk) ==
    LET decoded == VerifyToken(currentToken)
        user == IF decoded.threw THEN <<>>
                ELSE GetUserById(U, decoded.value.userId, dbOk)
    IN  IF decoded.threw \/ user = <<>>
        THEN Threw(PlainError("Token refresh failed"))
        ELSE Returned(AuthResponse(user[1]))

(***************************************************************************)
(* Product service (ProductService)                                        *)
(***************************************************************************)
\* One executed store call, as the connection sees it.
StoreCall(proc, input) == [proc |-> proc, input |-> input]

\* The ids of P from the highest down (ORDER BY createdAt DESC: the IDENTITY
\* column grows with the creation time).
RECURSIVE IdsDescending(_)
IdsDescending(S) ==
    IF S = {} THEN <<>>
    ELSE LET m == CHOOSE x \in S : \A y \in S : y <= x
         IN  <<m>> \o IdsDescending(S \ {m})

\* name LIKE '%term%' OR description LIKE '%term%', for the terms drawn here.
Like(row, term) ==
    \/ <<row.name, term>> \in {<<"Widget", "dget">>, <<"Gadget", "dget">>,
                                <<"Widget", "Wid">>, <<"Gadget", "Gadget">>}
    \/ <<row.description, term>> \in {<<"Old", "Old">>}

\* Rows from..to of a sequence (OFFSET ... FETCH NEXT ...), clipped.
Page(rows, offset, size) ==
    SubSeq(rows, offset + 1, IF offset + size < Len(rows) THEN offset + size
                             ELSE Len(rows))

\* GetProducts: the filtered page, every row carrying TotalCount.
SP_GetProducts(P, in) ==
    LET match == {i \in DOMAIN P :
                    /\ (in.Category = Null \/ P[i].category = in.Category)
                    /\ (in.SearchTerm = Null \/ Like(P[i], in.SearchTerm))}
        ordered == IdsDescending(match)
        offset == (in.PageNumber - 1) * in.PageSize
        ids == Page(ordered, offset, in.PageSize)
    IN  [k \in 1..Len(ids) |-> With(P[ids[k]], "TotalCount", Cardinality(match))]

\* Math.floor in place of Math.ceil.
CeilRoundsDown(a, b) == a \div b

\* Math.ceil(a / b) for b > 0
Ceil(a, b) == (a + b - 1) \div b

\* The product as formatted for a response.
FormatProduct(product) ==
    [id |-> product.id, name |-> product.name, description |-> product.description,
     price |-> product.price, category |-> product.category,
     createdAt |-> product.createdAt, updatedAt |-> product.updatedAt]

\* The price filter with the bounds themselves excluded.
RECURSIVE PriceFilterStrict(_, _)
PriceFilterStrict(rows, query) ==
    IF rows = <<>> THEN <<>>
    ELSE LET product == Head(rows)
             keep == /\ ~(Has(query, "minPrice") /\ product.price <= query.minPrice)
                     /\ ~(Has(query, "maxPrice") /\ product.price >= query.maxPrice)
         IN  (IF keep THEN <<product>> ELSE <<>>)
             \o PriceFilterStrict(Tail(rows), query)

\* products.filter(...) of getProducts: the rows inside the price bounds.
RECURSIVE PriceFilter(_, _)
PriceFilter(rows, query) ==
    IF rows = <<>> THEN <<>>
    ELSE LET product == Head(rows)
             keep == /\ ~(Has(query, "minPrice") /\ product.price < query.minPrice)
                     /\ ~(Has(query, "maxPrice") /\ product.price > query.maxPrice)
         IN  (IF keep THEN <<product>> ELSE <<>>) \o PriceFilter(Tail(rows), query)

\* getProducts: the GetProductsInput built from the query.
GetProductsInput(query) ==
    [PageNumber |-> IF Has(query, "pageNumber") THEN query.pageNumber ELSE 1,
     PageSize |-> IF Has(query, "pageSize") THEN query.pageSize ELSE 10,
     Category |-> IF Has(query, "category") /\ query.category # ""
                  THEN query.category ELSE Null,
     SearchTerm |-> IF Has(query, "searchTerm") /\ query.searchTerm # ""
                    THEN query.searchTerm ELSE Null]

\* The empty page with its flags computed like those of any other page.
EmptyPageComputed(pageNumber, pageSize) ==
    [products |-> <<>>,
     pagination |-> [currentPage |-> pageNumber, pageSize |-> pageSize,
                     totalCount |-> 0, totalPages |-> 0,
                     hasNextPage |-> pageNumber < 0,
                     hasPreviousPage |-> pageNumber > 1]]

\* getProducts: what it returns when the recordset is empty.
EmptyPage(pageNumber, pageSize) ==
    [products |-> <<>>,
     pagination |-> [currentPage |-> pageNumber, pageSize |-> pageSize,
                     totalCount |-> 0, totalPages |-> 0,
                     hasNextPage |-> FALSE, hasPreviousPage |-> FALSE]]

\* ProductService.getProducts
GetProducts(P, query, dbOk) ==
    LET input == GetProductsInput(query)
        pageNumber == input.PageNumber
        pageSize == input.PageSize
        category == input.Category
        searchTerm == input.SearchTerm
        result == ExecuteStoredProcedure(dbOk, ReadOnly(SP_GetProducts(P, input)))
        priced == Has(query, "minPrice") \/ Has(query, "maxPrice")
    IN  IF result.threw
        THEN Threw(AppError("Failed to retrieve products", 500, "PRODUCTS_FETCH_ERROR"))
        ELSE IF result.value.recordset = <<>>
        THEN Returned(EmptyPage(pageNumber, pageSize))
        ELSE LET rows == result.value.recordset
                 totalCount == rows[1].TotalCount
                 totalPages == Ceil(totalCount, pageSize)
                 kept == IF priced THEN PriceFilter(rows, query) ELSE rows
                 page == [products |-> [k \in 1..Len(kept) |-> FormatProduct(kept[k])],
                          pagination |-> [currentPage |-> pageNumber,
                                          pageSize |-> pageSize,
                                          totalCount |-> totalCount,
                                          totalPages |-> totalPages,
                                          hasNextPage |-> pageNumber < totalPages,
                                          hasPreviousPage |-> pageNumber > 1]]
                 filters == [k \in {x \in {"category", "searchTerm"} :
                                       Has(query, x) /\ query[x] # ""}
                                   \cup {x \in {"minPrice", "maxPrice"} : Has(query, x)}
                             |-> query[k]]
             IN  Returned(IF category # Null \/ searchTerm # Null \/ priced
                          THEN With(page, "filters", filters) ELSE page)

\* getProductById raising when the store returns zero rows.
GetProductByIdRaisesOnAbsent(P, id, dbOk) ==
    LET result == ExecuteStoredProcedure(dbOk, ReadOnly(SP_GetProductById(P, id)))
    IN  IF result.threw \/ result.value.recordset = <<>>
        THEN Threw(AppError("Failed to retrieve product", 500, "PRODUCT_FETCH_ERROR"))
        ELSE Returned(result.value.recordset)

\* ProductService.getProductById: the recordset's first row (<<>> is null).
GetProductById(P, id, dbOk) ==
    LET result == ExecuteStoredProcedure(dbOk, ReadOnly(SP_GetProductById(P, id)))
    IN  IF result.threw
        THEN Threw(AppError("Failed to retrieve product", 500, "PRODUCT_FETCH_ERROR"))
        ELSE Returned(result.value.recordset)

\* The ids of S ordered by the ORDER BY key of the search query: 1 when the
\* name is the term, 2 when it starts with the term, 3 otherwise; then the
\* name in collation order (rows with equal keys in the order the store
\* happens to produce).
RECURSIVE SearchOrder(_, _, _)
SearchOrder(P, S, term) ==
    LET case(row) == IF row.name = term THEN 1
                     ELSE IF <<row.name, term>> \in {<<"Widget", "Wid">>} THEN 2
                     ELSE 3
        name(row) == CASE row.name = "Gadget" -> 1
                       [] row.name = "Widget" -> 2
                       [] OTHER -> 0
        rank(row) == case(row) * 10 + name(row)
    IN  IF S = {} THEN <<>>
        ELSE LET m == CHOOSE x \in S : \A y \in S : rank(P[x]) <= rank(P[y])
             IN  <<m>> \o SearchOrder(P, S \ {m}, term)

\* SELECT TOP (@limit) * FROM Products WHERE name LIKE ... ORDER BY ...:
\* TOP takes a non-negative integer, any other limit fails the query.
SearchQuery(P, term, limit) ==
    IF limit < 0 THEN [raised |-> TRUE, recordset |-> <<>>]
    ELSE LET ids == Page(SearchOrder(P, {i \in DOMAIN P : Like(P[i], term)}, term),
                         0, limit)
         IN  [raised |-> FALSE, recordset |-> [k \in 1..Len(ids) |-> P[ids[k]]]]

\* ProductService.searchProducts
SearchProducts(P, searchTerm, limit, dbOk) ==
    LET q == SearchQuery(P, searchTerm, limit)
        result == ExecuteQuery(dbOk /\ ~q.raised, q.recordset)
    IN  IF result.threw
        THEN Threw(AppError("Failed to search products", 500, "PRODUCT_SEARCH_ERROR"))
        ELSE Returned(result.value.recordset)

\* SUM(price) over the rows of P with ids in S.
RECURSIVE SumPrice(_, _)
SumPrice(P, S) ==
    IF S = {} THEN 0
    ELSE LET i == CHOOSE x \in S : TRUE
         IN  P[i].price + SumPrice(P, S \ {i})

\* The rows of R, a set of rows with a count column, ORDER BY count DESC
\* (rows with equal counts in the order the store happens to produce).
RECURSIVE ByCountDesc(_)
ByCountDesc(R) ==
    IF R = {} THEN <<>>
    ELSE LET m == CHOOSE r \in R : \A q \in R : q.count <= r.count
         IN  <<m>> \o ByCountDesc(R \ {m})

\* SELECT COUNT(*) as totalProducts, AVG(price) as averagePrice FROM Products
\* (AVG over no rows is NULL; prices being whole numbers, AVG is the whole
\* part of the mean).
OverallStats(P) ==
    <<[totalProducts |-> Cardinality(DOMAIN P),
       averagePrice |-> IF DOMAIN P = {} THEN Null
                        ELSE SumPrice(P, DOMAIN P) \div Cardinality(DOMAIN P)]>>

\* SELECT category, COUNT(*), AVG(price), MIN(price), MAX(price)
\* FROM Products GROUP BY category ORDER BY count DESC
CategoryStats(P) ==
    ByCountDesc({LET S == {i \in DOMAIN P : P[i].category = c}
                 IN  [category |-> c, count |-> Cardinality(S),
                      averagePrice |-> SumPrice(P, S) \div Cardinality(S),
                      minPrice |-> CHOOSE x \in {P[i].price : i \in S} :
                                      \A i \in S : x <= P[i].price,
                      maxPrice |-> CHOOSE x \in {P[i].price : i \in S} :
                                      \A i \in S : x >= P[i].price] :
                 c \in {P[i].category : i \in DOMAIN P}})

\* The CASE expression of the price range query.
PriceRange(price) ==
    IF price < 50 THEN "Under $50"
    ELSE IF price < 100 THEN "$50 - $99"
    ELSE IF price < 500 THEN "$100 - $499"
    ELSE IF price < 1000 THEN "$500 - $999"
    ELSE "Over $1000"

\* SELECT CASE ... END as range, COUNT(*) as count FROM Products
\* GROUP BY CASE ... END ORDER BY count DESC
PriceRangeStats(P) ==
    ByCountDesc({[range |-> l,
                  count |-> Cardinality({i \in DOMAIN P : PriceRange(P[i].price) = l})] :
                 l \in {PriceRange(P[i].price) : i \in DOMAIN P}})

\* getStatistics: the result built from the three recordsets. A percentage
\* is kept as the fraction <<count * 100, totalProducts>>.
Statistics(statsResult, categoryResult, priceRangeResult) ==
    LET totalProducts == IF statsResult = <<>> THEN 0
                         ELSE statsResult[1].totalProducts
    IN  [totalProducts |-> totalProducts,
         averagePrice |-> IF totalProducts = 0 THEN 0
                          ELSE statsResult[1].averagePrice,
         categories |-> categoryResult,
         priceRanges |-> [k \in DOMAIN priceRangeResult |->
                            [range |-> priceRangeResult[k].range,
                             count |-> priceRangeResult[k].count,
                             percentage |-> IF totalProducts > 0
                                            THEN <<priceRangeResult[k].count * 100,
                                                   totalProducts>>
                                            ELSE <<0, 1>>]]]

\* ProductService.createProduct
CreateProduct(P, nextId, productData, dbOk) ==
    LET input == [Name |-> productData.name,
                  Description |-> IF Has(productData, "description")
                                     /\ productData.description # ""
                                  THEN productData.description ELSE Null,
                  Price |-> productData.price,
                  Category |-> productData.category]
        sp == SP_CreateProduct(P, nextId, input)
        result == ExecuteStoredProcedure(dbOk, sp)
    IN  [out |-> IF result.threw \/ result.value.recordset = <<>>
                 THEN Threw(AppError("Failed to create product", 500,
                                     "PRODUCT_CREATE_ERROR"))
                 ELSE Returned(result.value.recordset[1]),
         products |-> IF dbOk THEN sp.products ELSE P,
         nextId |-> IF dbOk THEN nextId + 1 ELSE nextId,
         calls |-> <<StoreCall("CreateProduct", input)>>]

\* The existence check without its `if (!existingProduct)` throw.
CheckExistsIgnoresMissing(P, id, dbOk) ==
    LET existingProduct == GetProductById(P, id, dbOk)
    IN  IF existingProduct.threw THEN existingProduct
        ELSE IF existingProduct.value = <<>>
        THEN Returned([id |-> id, name |-> Null, description |-> Null, price |-> 0,
                       category |-> Null])
        ELSE Returned(existingProduct.value[1])

\* The existence check that opens updateProduct and deleteProduct:
\* getProductById, then the 404 when it returned null.
CheckExists(P, id, dbOk) ==
    LET existingProduct == GetProductById(P, id, dbOk)
    IN  IF existingProduct.threw THEN existingProduct
        ELSE IF existingProduct.value = <<>>
        THEN Threw(AppError("Product not found", 404, "PRODUCT_NOT_FOUND"))
        ELSE Returned(existingProduct.value[1])

\* updateProduct: "Merge existing data with updates".
MergeInputMissesDescription(id, productData, existingProduct) ==
    [Id |-> id,
     Name |-> IF Has(productData, "name") /\ productData.name # Null
              THEN productData.name ELSE existingProduct.name,
     Description |-> IF Has(productData, "description")
                        /\ productData.description # ""
                     THEN productData.description
                     ELSE existingProduct.description,
     Price |-> IF Has(productData, "price") THEN productData.price
               ELSE existingProduct.price,
     Category |-> IF Has(productData, "category") /\ productData.category # Null
                  THEN productData.category ELSE existingProduct.category]

MergeInput(id, productData, existingProduct) ==
    [Id |-> id,
     Name |-> IF Has(productData, "name") /\ productData.name # Null
              THEN productData.name ELSE existingProduct.name,
     Description |-> IF Has(productData, "description")
                     THEN (IF productData.description \in {"", Null} THEN Null
                           ELSE productData.description)
                     ELSE existingProduct.description,
     Price |-> IF Has(productData, "price") THEN productData.price
               ELSE existingProduct.price,
     Category |-> IF Has(productData, "category") /\ productData.category # Null
                  THEN productData.category ELSE existingProduct.category]

\* updateProduct after the existence check: the UpdateProduct call and what
\* is made of its result.
UpdateMutate(P, id, productData, existingProduct, dbOk) ==
    LET input == MergeInput(id, productData, existingProduct)
        sp == SP_UpdateProduct(P, input)
        result == ExecuteStoredProcedure(dbOk, sp)
    IN  [out |-> IF result.threw \/ result.value.recordset = <<>>
                 THEN Threw(AppError("Failed to update product", 500,
                                     "PRODUCT_UPDATE_ERROR"))
                 ELSE Returned(result.value.recordset[1]),
         products |-> IF dbOk THEN sp.products ELSE P,
         calls |-> <<StoreCall("UpdateProduct", input)>>]

\* deleteProduct after the existence check: the DeleteProduct call.
DeleteMutate(P, id, dbOk) ==
    LET input == [Id |-> id]
        sp == SP_DeleteProduct(P, input)
        result == ExecuteStoredProcedure(dbOk, sp)
    IN  [out |-> IF result.threw
                 THEN Threw(AppError("Failed to delete product", 500,
                                     "PRODUCT_DELETE_ERROR"))
                 ELSE Returned(<<>>),
         products |-> IF dbOk THEN sp.products ELSE P,
         calls |-> <<StoreCall("DeleteProduct", input)>>]

\* ProductService.updateProduct, run without interleaving.
UpdateProduct(P, id, productData, dbOk1, dbOk2) ==
    LET check == CheckExists(P, id, dbOk1)
        read == <<StoreCall("GetProductById", [Id |-> id])>>
    IN  IF check.threw
        THEN [out |-> check, products |-> P, calls |-> read]
        ELSE LET m == UpdateMutate(P, id, productData, check.value, dbOk2)
             IN  [out |-> m.out, products |-> m.products, calls |-> read \o m.calls]

\* ProductService.deleteProduct, run without interleaving.
DeleteProduct(P, id, dbOk1, dbOk2) ==
    LET check == CheckExists(P, id, dbOk1)
        read == <<StoreCall("GetProductById", [Id |-> id])>>
    IN  IF check.threw
        THEN [out |-> check, products |-> P, calls |-> read]
        ELSE LET m == DeleteMutate(P, id, dbOk2)
             IN  [out |-> m.out, products |-> m.products, calls |-> read \o m.calls]

(***************************************************************************)
(* Validation schemas (Joi, abortEarly: false, stripUnknown, convert)      *)
(***************************************************************************)
\* Number(s) for the numeric strings drawn here; any other string is NaN.
NumberOf ==
    ("0" :> 0) @@ ("1" :> 1) @@ ("2" :> 2) @@ ("3" :> 3) @@ ("10" :> 10)
    @@ ("120" :> 120) @@ ("200" :> 200)

IsNumeric(s) == s \in DOMAIN NumberOf

\* productIdSchema
ProductIdSchemaErrors(params) ==
    IF ~Has(params, "id") THEN <<"Product ID is required">>
    ELSE IF ~IsNumeric(params.id) THEN <<"Product ID must be a number">>
    ELSE IF NumberOf[params.id] <= 0 THEN <<"Product ID must be greater than 0">>
    ELSE <<>>

ProductIdSchemaValue(params) == [id |-> NumberOf[params.id]]

\* The rules of a required / optional non-empty string key.
NameErrors(body, required) ==
    IF ~Has(body, "name")
    THEN (IF required THEN <<"Name is required">> ELSE <<>>)
    ELSE IF body.name = "" THEN <<"Name cannot be empty">> ELSE <<>>

CategoryErrors(body, required) ==
    IF ~Has(body, "category")
    THEN (IF required THEN <<"Category is required">> ELSE <<>>)
    ELSE IF body.category = "" THEN <<"Category cannot be empty">> ELSE <<>>

\* price: number().positive().precision(2).max(999999.99)
PriceErrors(body, required) ==
    IF ~Has(body, "price")
    THEN (IF required THEN <<"Price is required">> ELSE <<>>)
    ELSE (IF body.price <= 0 THEN <<"Price must be greater than 0">> ELSE <<>>)
         \o (IF body.price > 999999 THEN <<"Price must not exceed 999,999.99">>
             ELSE <<>>)

\* createProductSchema (description: any string up to 1000 characters, optional)
CreateProductSchemaErrors(body) ==
    NameErrors(body, TRUE) \o PriceErrors(body, TRUE) \o CategoryErrors(body, TRUE)

\* updateProductSchema: every key optional, .min(1) key
UpdateProductSchemaErrors(body) ==
    NameErrors(body, FALSE) \o PriceErrors(body, FALSE)
    \o CategoryErrors(body, FALSE)
    \o (IF DOMAIN body = {} THEN <<"\"value\" must have at least 1 key">> ELSE <<>>)

\* One numeric query key with a lower bound.
NumberKeyErrors(query, key, base, min, tooSmall) ==
    IF ~Has(query, key) THEN <<>>
    ELSE IF ~IsNumeric(query[key]) THEN <<base>>
    ELSE IF NumberOf[query[key]] < min THEN <<tooSmall>>
    ELSE <<>>

\* productQuerySchema
ProductQuerySchemaErrors(query) ==
    NumberKeyErrors(query, "pageNumber", "Page number must be a number", 1,
                    "Page number must be at least 1")
    \o NumberKeyErrors(query, "pageSize", "Page size must be a number", 1,
                       "Page size must be at least 1")
    \o (IF Has(query, "pageSize") /\ IsNumeric(query.pageSize)
           /\ NumberOf[query.pageSize] > 100
        THEN <<"Page size must not exceed 100">> ELSE <<>>)
    \o NumberKeyErrors(query, "minPrice", "Minimum price must be a number", 1,
                       "Minimum price must be greater than 0")
    \o NumberKeyErrors(query, "maxPrice", "Maximum price must be a number", 1,
                       "Maximum price must be greater than 0")
    \o (IF /\ Has(query, "minPrice") /\ IsNumeric(query.minPrice)
           /\ Has(query, "maxPrice") /\ IsNumeric(query.maxPrice)
           /\ NumberOf[query.maxPrice] >= 1
           /\ NumberOf[query.maxPrice] < NumberOf[query.minPrice]
        THEN <<"Maximum price must be greater than or equal to minimum price">>
        ELSE <<>>)

\* The converted query: numbers parsed, defaults filled in.
ProductQuerySchemaValue(query) ==
    LET numeric == {"pageNumber", "pageSize", "minPrice", "maxPrice"}
        given == [k \in DOMAIN query |->
                     IF k \in numeric THEN NumberOf[query[k]] ELSE query[k]]
        d1 == IF Has(given, "pageNumber") THEN given ELSE With(given, "pageNumber", 1)
        d2 == IF Has(d1, "pageSize") THEN d1 ELSE With(d1, "pageSize", 10)
        d3 == IF Has(d2, "sortBy") THEN d2 ELSE With(d2, "sortBy", "createdAt")
    IN  IF Has(d3, "sortOrder") THEN d3 ELSE With(d3, "sortOrder", "desc")

\* loginSchema
LoginSchemaErrors(body) ==
    (IF ~Has(body, "username") THEN <<"Username is required">>
     ELSE IF body.username = "" THEN <<"Username cannot be empty">> ELSE <<>>)
    \o (IF ~Has(body, "password") THEN <<"Password is required">>
        ELSE IF body.password = "" THEN <<"Password cannot be empty">> ELSE <<>>)

\* registerSchema, on the strings drawn here: "al" is shorter than 3,
\* "not-an-email" is no address, "weak" is shorter than 8 and has no
\* upper-case letter, digit or special character.
RegisterSchemaErrors(body) ==
    (IF ~Has(body, "username") THEN <<"Username is required">>
     ELSE IF body.username = "al"
          THEN <<"Username must be at least 3 characters long">> ELSE <<>>)
    \o (IF ~Has(body, "email") THEN <<"Email is required">>
        ELSE IF body.email = "not-an-email"
             THEN <<"Email must be a valid email address">> ELSE <<>>)
    \o (IF ~Has(body, "password") THEN <<"Password is required">>
        ELSE IF body.password = "weak"
             THEN <<"Password must be at least 8 characters long",
                    "Password must contain at least one lowercase letter, one uppercase letter, one number, and one special character">>
             ELSE <<>>)

\* schema.validate(value, ...).error.details.map(detail => detail.message)
SchemaErrors(schema, value) ==
    CASE schema = "productIdSchema" -> ProductIdSchemaErrors(value)
      [] schema = "createProductSchema" -> CreateProductSchemaErrors(value)
      [] schema = "updateProductSchema" -> UpdateProductSchemaErrors(value)
      [] schema = "productQuerySchema" -> ProductQuerySchemaErrors(value)
      [] schema = "loginSchema" -> LoginSchemaErrors(value)
      [] schema = "registerSchema" -> RegisterSchemaErrors(value)

\* schema.validate(value, ...).value
SchemaValue(schema, value) ==
    CASE schema = "productIdSchema" -> ProductIdSchemaValue(value)
      [] schema = "productQuerySchema" -> ProductQuerySchemaValue(value)
      [] OTHER -> value

(***************************************************************************)
(* Routes                                                                  *)
(***************************************************************************)
RateLimitMw(limiter) == [kind |-> "rateLimit", limiter |-> limiter]
ValidateMw(options) == [kind |-> "validate", options |-> options]
AuthenticateMw == [kind |-> "authenticate"]
OptionalAuthenticateMw == [kind |-> "optionalAuthenticate"]
HandlerMw(name) == [kind |-> "handler", name |-> name]

\* validateBody / validateParams / validateQuery
ValidateBody(schema) == ValidateMw([body |-> schema])
ValidateParams(schema) == ValidateMw([params |-> schema])
ValidateQuery(schema) == ValidateMw([query |-> schema])

\* auth.routes.ts
AuthRoutes ==
    [register |-> <<RateLimitMw("authLimiter"), ValidateBody("registerSchema"),
                    HandlerMw("register")>>,
     login    |-> <<RateLimitMw("loginLimiter"), ValidateBody("loginSchema"),
                    HandlerMw("login")>>,
     profile  |-> <<AuthenticateMw, HandlerMw("getProfile")>>,
     refresh  |-> <<AuthenticateMw, HandlerMw("refreshToken")>>,
     logout   |-> <<AuthenticateMw, HandlerMw("logout")>>]

\* product.routes.ts with validation placed ahead of authentication.
ProductRoutesValidateFirst ==
    [list    |-> <<ValidateQuery("productQuerySchema"), OptionalAuthenticateMw,
                   HandlerMw("getAllProducts")>>,
     search  |-> <<HandlerMw("searchProducts")>>,
     getById |-> <<ValidateParams("productIdSchema"), HandlerMw("getProductById")>>,
     create  |-> <<RateLimitMw("createProductLimiter"),
                   ValidateBody("createProductSchema"), AuthenticateMw,
                   HandlerMw("createProduct")>>,
     update  |-> <<ValidateParams("productIdSchema"),
                   ValidateBody("updateProductSchema"), AuthenticateMw,
                   HandlerMw("updateProduct")>>,
     delete  |-> <<ValidateParams("productIdSchema"), AuthenticateMw,
                   HandlerMw("deleteProduct")>>]

\* product.routes.ts
ProductRoutes ==
    [list    |-> <<ValidateQuery("productQuerySchema"), OptionalAuthenticateMw,
                   HandlerMw("getAllProducts")>>,
     search  |-> <<HandlerMw("searchProducts")>>,
     getById |-> <<ValidateParams("productIdSchema"), HandlerMw("getProductById")>>,
     create  |-> <<RateLimitMw("createProductLimiter"), AuthenticateMw,
                   ValidateBody("createProductSchema"), HandlerMw("createProduct")>>,
     update  |-> <<AuthenticateMw, ValidateParams("productIdSchema"),
                   ValidateBody("updateProductSchema"), HandlerMw("updateProduct")>>,
     delete  |-> <<AuthenticateMw, ValidateParams("productIdSchema"),
                   HandlerMw("deleteProduct")>>]

\* The routing table: <<method, path>> -> chain; a request matching none
\* has no chain.
RoutingTable ==
    (<<"POST", "/api/auth/register">> :> AuthRoutes.register)
    @@ (<<"POST", "/api/auth/login">> :> AuthRoutes.login)
    @@ (<<"GET", "/api/auth/profile">> :> AuthRoutes.profile)
    @@ (<<"POST", "/api/auth/refresh">> :> AuthRoutes.refresh)
    @@ (<<"POST", "/api/auth/logout">> :> AuthRoutes.logout)
    @@ (<<"GET", "/api/products">> :> ProductRoutes.list)
    @@ (<<"GET", "/api/products/search">> :> ProductRoutes.search)
    @@ (<<"GET", "/api/products/:id">> :> ProductRoutes.getById)
    @@ (<<"POST", "/api/products">> :> ProductRoutes.create)
    @@ (<<"PUT", "/api/products/:id">> :> ProductRoutes.update)
    @@ (<<"DELETE", "/api/products/:id">> :> ProductRoutes.delete)

Chain(r) ==
    IF <<r.method, r.path>> \in DOMAIN RoutingTable
    THEN RoutingTable[<<r.method, r.path>>] ELSE <<>>

\* App.initializeSwagger: whether setupSwagger is called, for the
\* process.env.NODE_ENV and process.env.ENABLE_SWAGGER of the deployment.
SwaggerEnabled ==
    LET NodeEnv == "development"
        EnableSwagger == "false"
    IN  NodeEnv # "production" \/ EnableSwagger = "true"

\* setupSwagger: app.use('/api-docs', ...) and app.get('/api-docs.json', ...)
SwaggerPaths == {"/api-docs", "/api-docs.json"}

\* The App constructor: the layers that follow the global middlewares, in
\* the order in which they are registered on the Express application.
AppLayers ==
    <<"routes", "validationErrorHandler", "notFoundHandler", "errorHandler">>
    \o (IF SwaggerEnabled THEN <<"swagger">> ELSE <<>>)

\* Whether a layer takes a request that carries no error: an error
\* middleware (four parameters) is skipped, app.use(notFoundHandler) has no
\* path and takes every request.
LayerMatches(layer, r) ==
    CASE layer = "routes" -> Chain(r) # <<>>
      [] layer = "notFoundHandler" -> TRUE
      [] layer = "swagger" -> r.method = "GET" /\ r.path \in SwaggerPaths
      [] OTHER -> FALSE

\* Express dispatch: the first registered layer that takes the request.
Dispatch(r) ==
    LET first == CHOOSE i \in DOMAIN AppLayers :
                    /\ LayerMatches(AppLayers[i], r)
                    /\ \A j \in 1..(i - 1) : ~LayerMatches(AppLayers[j], r)
    IN  AppLayers[first]

\* The middleware the request is about to enter.
Current == Chain(req)[step]

AtMw(kind) ==
    /\ phase = "chain"
    /\ step \in 1..Len(Chain(req))
    /\ Current.kind = kind

AtHandler(name) == AtMw("handler") /\ Current.name = name

(***************************************************************************)
(* Responses                                                               *)
(***************************************************************************)
\* res.status(status).json(body)
Send(status, body) == res' = Append(res, [status |-> status, body |-> body])

\* The { error: {...} } object of the error envelope.
Envelope(error) == [error |-> error]

\* The { success: true, message, data, timestamp } object of a success.
Success(message, data) ==
    [success |-> TRUE, message |-> message, data |-> data, timestamp |-> Now]

\* next(): on to the following middleware of the chain.
Next_(name) ==
    /\ step' = step + 1
    /\ phase' = "chain"
    /\ trace' = Append(trace, name)

\* The response was written and next was not called.
Stop(name) ==
    /\ phase' = "done"
    /\ step' = step
    /\ trace' = Append(trace, name)

\* next(error) / asyncHandler's .catch(next): on to the error middlewares.
Fail(name, error) ==
    /\ phase' = "error"
    /\ step' = step
    /\ err' = error
    /\ trace' = Append(trace, name)

(***************************************************************************)
(* Authentication gates (auth.middleware)                                  *)
(***************************************************************************)
\* A JSON string at a key that elsewhere holds an object.
Str(s) == [string |-> s]

\* header.split(' ')
RECURSIVE Split(_)
Split(s) ==
    IF s = <<>> THEN << <<>> >>
    ELSE LET rest == Split(Tail(s))
         IN  IF Head(s) = " " THEN << <<>> >> \o rest
             ELSE << <<Head(s)>> \o Head(rest) >> \o Tail(rest)

\* req.headers.authorization; <<>> (falsy) when the header is absent or empty
AuthorizationHeader(headers) ==
    IF Has(headers, "authorization") THEN headers.authorization ELSE <<>>

Reject401(error, message, calls) ==
    [pass |-> FALSE, status |-> 401,
     body |-> [error |-> Str(error), message |-> message], calls |-> calls]

Pass(decoded, calls) == [pass |-> TRUE, user |-> decoded, calls |-> calls]

\* authenticate with the identity lookup left out.
AuthenticateSkipsUserLookup(headers, U, dbOk) ==
    LET authHeader == AuthorizationHeader(headers)
        tokenParts == Split(authHeader)
    IN  IF authHeader = <<>>
        THEN Reject401("Authorization header missing", "Access token is required", <<>>)
        ELSE IF Len(tokenParts) # 2 \/ tokenParts[1] # <<"Bearer">>
        THEN Reject401("Invalid authorization format",
                       "Authorization header must be in format: Bearer <token>", <<>>)
        ELSE IF tokenParts[2] = <<>>
        THEN Reject401("Invalid token", "Token cannot be empty", <<>>)
        ELSE LET decoded == VerifyToken(tokenParts[2])
             IN  IF decoded.threw
                 THEN Reject401("Authentication failed", "Authentication failed", <<>>)
                 ELSE Pass(decoded.value, <<>>)

\* authenticate: what the gate decides for these headers.
AuthenticateOutcome(headers, U, dbOk) ==
    LET authHeader == AuthorizationHeader(headers)
        tokenParts == Split(authHeader)
    IN  IF authHeader = <<>>
        THEN Reject401("Authorization header missing", "Access token is required", <<>>)
        ELSE IF Len(tokenParts) # 2 \/ tokenParts[1] # <<"Bearer">>
        THEN Reject401("Invalid authorization format",
                       "Authorization header must be in format: Bearer <token>", <<>>)
        ELSE IF tokenParts[2] = <<>>
        THEN Reject401("Invalid token", "Token cannot be empty", <<>>)
        ELSE LET decoded == VerifyToken(tokenParts[2])
             IN  IF decoded.threw
                 THEN Reject401("Authentication failed",
                                IF decoded.error.message = "Token expired"
                                THEN "Token has expired"
                                ELSE IF decoded.error.message = "Invalid token"
                                THEN "Invalid token provided"
                                ELSE "Authentication failed", <<>>)
                 ELSE LET lookup == <<StoreCall("SelectUserById",
                                                [userId |-> decoded.value.userId])>>
                          user == GetUserById(U, decoded.value.userId, dbOk)
                      IN  IF user = <<>>
                          THEN Reject401("User not found",
                                         "The user associated with this token no longer exists",
                                         lookup)
                          ELSE Pass(decoded.value, lookup)

\* optionalAuthenticate that attaches the token's claims without verifying it.
OptionalIdentityUnverified(headers) ==
    LET tokenParts == Split(AuthorizationHeader(headers))
    IN  IF Len(tokenParts) = 2 /\ tokenParts[1] = <<"Bearer">> /\ tokenParts[2] # <<>>
        THEN [attach |-> TRUE, user |-> [claimed |-> tokenParts[2]]]
        ELSE [attach |-> FALSE]

\* optionalAuthenticate: the identity it attaches, if any. It always calls next.
OptionalIdentity(headers) ==
    LET authHeader == AuthorizationHeader(headers)
        tokenParts == Split(authHeader)
    IN  IF /\ authHeader # <<>>
           /\ Len(tokenParts) = 2 /\ tokenParts[1] = <<"Bearer">>
           /\ tokenParts[2] # <<>>
           /\ ~VerifyToken(tokenParts[2]).threw
        THEN [attach |-> TRUE, user |-> VerifyToken(tokenParts[2]).value]
        ELSE [attach |-> FALSE]

(***************************************************************************)
(* Validation middleware                                                   *)
(***************************************************************************)
\* The violations of one surface, if the options name a schema for it.
SurfaceErrors(options, r, surface) ==
    IF Has(options, surface) THEN SchemaErrors(options[surface], r[surface]) ELSE <<>>

\* validate with abortEarly: true: only the first violation is reported.
ValidationErrorsAbortEarly(options, r) ==
    LET all == SurfaceErrors(options, r, "body") \o SurfaceErrors(options, r, "params")
               \o SurfaceErrors(options, r, "query")
               \o SurfaceErrors(options, r, "headers")
    IN  IF all = <<>> THEN <<>> ELSE <<Head(all)>>

\* validate: errors, in the order body, params, query, headers.
ValidationErrors(options, r) ==
    SurfaceErrors(options, r, "body") \o SurfaceErrors(options, r, "params")
    \o SurfaceErrors(options, r, "query") \o SurfaceErrors(options, r, "headers")

\* errors.length > 1: a single violation slips through.
HasViolationsOffByOne(errors) == Len(errors) > 1

\* errors.length > 0
HasViolations(errors) == Len(errors) > 0

\* validate: the request with every validated surface that had no violation
\* replaced by its converted value.
Validated(options, r) ==
    [k \in DOMAIN r |->
        IF k \in {"body", "params", "query", "headers"} /\ Has(options, k)
           /\ SurfaceErrors(options, r, k) = <<>>
        THEN SchemaValue(options[k], r[k])
        ELSE r[k]]

\* The 400 body of validate.
ValidationFailedBody(errors, r) ==
    Envelope([message |-> "Validation failed", code |-> "VALIDATION_ERROR",
              statusCode |-> 400, details |-> errors, timestamp |-> Now,
              path |-> r.path, method |-> r.method])

(***************************************************************************)
(* Error middlewares (error.middleware)                                    *)
(***************************************************************************)
\* errorHandler: status and JSON body. A key whose value is undefined is
\* not part of the serialised body.
ErrorResponse(error, r) ==
    LET statusCode == IF Has(error, "statusCode") THEN error.statusCode ELSE 500
        base == [message |-> error.message, statusCode |-> statusCode,
                 timestamp |-> Now, path |-> r.path, method |-> r.method]
    IN  [status |-> statusCode,
         body |-> Envelope(IF Has(error, "code") THEN With(base, "code", error.code)
                           ELSE base)]

(***************************************************************************)
(* Requests                                                                *)
(***************************************************************************)
NoRequest == [method |-> "", path |-> ""]

BearerA == <<"Bearer", " ", "tokA">>

\* Authorization header values: every shape the gates tell apart.
AuthorizationValues(U) ==
    {<<>>, BearerA,
     <<"Bearer", " ", "tokExp">>, <<"Bearer", " ", "junk">>,
     <<"Bearer", " ", "tokGone">>, <<"Bearer", " ", "tokNbf">>,
     <<"Bearer", " ">>, <<"Bearer">>, <<"Bearer", "tokA">>,
     <<"Basic", " ", "tokA">>, <<"bearer", " ", "tokA">>,
     <<"Bearer", " ", "tokA", " ", "x">>, <<"Bearer", " ", " ", "tokA">>}
    \cup (IF 2 \in DOMAIN U THEN {<<"Bearer", " ", "tokB">>} ELSE {})

AnyHeaders(U) == {EmptyObj} \cup {[authorization |-> h] : h \in AuthorizationValues(U)}
FewHeaders == {EmptyObj, [authorization |-> BearerA]}

IdParams == {[id |-> "1"], [id |-> "2"], [id |-> "0"], [id |-> "abc"]}

ProductBodies ==
    {EmptyObj,
     [name |-> "", price |-> -10, category |-> "Toys"],
     [name |-> "Gadget", price |-> 150, category |-> "Toys"],
     [price |-> 150],
     [description |-> ""]}

Queries ==
    {EmptyObj,
     [pageNumber |-> "0"],
     [pageNumber |-> "0", pageSize |-> "abc"],
     [pageNumber |-> "2", pageSize |-> "1"],
     [category |-> "Tools", minPrice |-> "120", maxPrice |-> "200"],
     [minPrice |-> "200", maxPrice |-> "120"]}

\* Query strings of the search route: q and limit present or absent.
SearchQueries ==
    {q @@ l :
        q \in {EmptyObj, [q |-> ""], [q |-> "dget"], [q |-> "Gadget"]},
        l \in {EmptyObj} \cup {[limit |-> v] : v \in {"", "1", "50", "51", "0", "-5"}}}

LoginBodies ==
    {[username |-> "alice", password |-> "pw1"],
     [username |-> "alice", password |-> "wrong"],
     [username |-> "nobody", password |-> "pw1"],
     [username |-> "alice"],
     EmptyObj}

RegisterBodies ==
    {[username |-> "bob", email |-> "bob@example.com", password |-> "Str0ng!pw"],
     [username |-> "alice", email |-> "alice2@example.com", password |-> "Str0ng!pw"],
     [username |-> "al", email |-> "not-an-email", password |-> "weak"]}

Request(method, path, headers, params, query, body) ==
    [method |-> method, path |-> path, headers |-> headers, params |-> params,
     query |-> query, body |-> body]

\* The requests a client can send, given the users registered so far.
Requests(U) ==
    {Request("POST", "/api/auth/register", h, EmptyObj, EmptyObj, b) :
        h \in FewHeaders, b \in RegisterBodies}
    \cup {Request("POST", "/api/auth/login", h, EmptyObj, EmptyObj, b) :
        h \in FewHeaders, b \in LoginBodies}
    \cup {Request("GET", "/api/auth/profile", h, EmptyObj, EmptyObj, EmptyObj) :
        h \in AnyHeaders(U)}
    \cup {Request("POST", "/api/auth/refresh", h, EmptyObj, EmptyObj, EmptyObj) :
        h \in FewHeaders \cup {[authorization |-> <<"Bearer", " ", t>>] :
                                  t \in {"tokOld", "tokGone"}}}
    \cup {Request("POST", "/api/auth/logout", h, EmptyObj, EmptyObj, EmptyObj) :
        h \in AnyHeaders(U)}
    \cup {Request("GET", "/api/products", h, EmptyObj, q, EmptyObj) :
        h \in AnyHeaders(U), q \in Queries}
    \cup {Request("GET", "/api/products/:id", h, p, EmptyObj, EmptyObj) :
        h \in FewHeaders, p \in IdParams}
    \cup {Request("GET", "/api/products/search", EmptyObj, EmptyObj, q, EmptyObj) :
        q \in SearchQueries}
    \cup {Request("POST", "/api/products", h, EmptyObj, EmptyObj, b) :
        h \in AnyHeaders(U), b \in ProductBodies}
    \cup {Request("PUT", "/api/products/:id", h, p, EmptyObj, b) :
        h \in AnyHeaders(U), p \in IdParams, b \in ProductBodies}
    \cup {Request("DELETE", "/api/products/:id", h, p, EmptyObj, EmptyObj) :
        h \in AnyHeaders(U), p \in IdParams}
    \cup {Request(m, p, h, EmptyObj, EmptyObj, EmptyObj) :
        m \in {"GET", "PATCH"},
        p \in {"/api/unknown", "/api/products", "/api/auth/login"} \cup SwaggerPaths,
        h \in FewHeaders}

(***************************************************************************)
(* The request pipeline: one action per middleware and handler             *)
(***************************************************************************)
Init ==
    /\ phase = "idle"
    /\ req = NoRequest
    /\ step = 1
    /\ res = <<>>
    /\ err = NoError
    /\ trace = <<>>
    /\ storeCalls = <<>>
    /\ timer = "off"
    /\ pool = <<>>
    /\ connecting = FALSE
    /\ poolPc = [c \in PoolCallers |-> "idle"]
    /\ poolGot = [c \in PoolCallers |-> <<>>]
    /\ products = InitialProducts
    /\ nextProductId = 2
    /\ users = InitialUsers
    /\ svcPc = "idle"
    /\ svcCall = [op |-> "none"]
    /\ svcExisting = <<>>
    /\ svcCalls = <<>>
    /\ svcResult = [threw |-> FALSE, value |-> <<>>]

\* The response has been flushed: the exchange is over.
Finish ==
    /\ phase = "done"
    /\ phase' = "idle"
    /\ req' = NoRequest
    /\ step' = 1
    /\ res' = <<>>
    /\ err' = NoError
    /\ trace' = <<>>
    /\ storeCalls' = <<>>
    /\ UNCHANGED <<products, nextProductId, users, svcVars, timer, dbVars>>

\* A request arrives.
NewRequest ==
    /\ phase = "idle"
    /\ \E r \in Requests(users) :
          /\ req' = r
          /\ phase' = IF Dispatch(r) = "routes" THEN "chain" ELSE "unmatched"
    /\ step' = 1
    /\ res' = <<>>
    /\ err' = NoError
    /\ trace' = <<>>
    /\ storeCalls' = <<>>
    /\ UNCHANGED <<products, nextProductId, users, svcVars, timer, dbVars>>

\* express-rate-limit: the request is over the limiter's window count or not.
RateLimit ==
    /\ AtMw("rateLimit")
    /\ \E limited \in BOOLEAN :
          IF limited
          THEN /\ Send(429, [error |-> Str("Too many requests from this IP"),
                             message |-> "Please try again after 15 minutes"])
               /\ Stop("rateLimit")
          ELSE /\ Next_("rateLimit")
               /\ res' = res
    /\ UNCHANGED <<req, err, storeCalls, products, nextProductId, users, svcVars, timer, dbVars>>

\* validate(options)
Validate ==
    /\ AtMw("validate")
    /\ LET errors == ValidationErrors(Current.options, req)
       IN  IF HasViolations(errors)
           THEN /\ Send(400, ValidationFailedBody(errors, req))
                /\ Stop("validate")
                /\ req' = Validated(Current.options, req)
           ELSE /\ Next_("validate")
                /\ req' = Validated(Current.options, req)
                /\ res' = res
    /\ UNCHANGED <<err, storeCalls, products, nextProductId, users, svcVars, timer, dbVars>>

\* authenticate
Authenticate ==
    /\ AtMw("authenticate")
    /\ \E dbOk \in BOOLEAN :
          LET outcome == AuthenticateOutcome(req.headers, users, dbOk)
          IN  /\ storeCalls' = storeCalls \o outcome.calls
              /\ IF outcome.pass
                 THEN /\ req' = With(req, "user", outcome.user)
                      /\ Next_("authenticate")
                      /\ res' = res
                 ELSE /\ Send(outcome.status, outcome.body)
                      /\ Stop("authenticate")
                      /\ req' = req
    /\ UNCHANGED <<err, products, nextProductId, users, svcVars, timer, dbVars>>

\* optionalAuthenticate
OptionalAuthenticate ==
    /\ AtMw("optionalAuthenticate")
    /\ LET identity == OptionalIdentity(req.headers)
       IN  req' = IF identity.attach THEN With(req, "user", identity.user) ELSE req
    /\ Next_("optionalAuthenticate")
    /\ UNCHANGED <<res, err, storeCalls, products, nextProductId, users, svcVars, timer, dbVars>>

\* A handler wrapped in asyncHandler: respond with the value, or next(error).
Respond(name, out, status, message, data) ==
    IF out.threw
    THEN /\ Fail(name, out.error)
         /\ res' = res
    ELSE /\ Send(status, Success(message, data))
         /\ Stop(name)
         /\ err' = err

\* AuthController.register
RegisterHandler ==
    /\ AtHandler("register")
    /\ \E dbOk \in BOOLEAN :
          LET r == Register(users, req.body, dbOk)
          IN  /\ users' = r.users
              /\ storeCalls' = Append(storeCalls, StoreCall("CreateUser",
                                          [Username |-> req.body.username]))
              /\ Respond("register", r.out, 201, "User registered successfully",
                         IF r.out.threw THEN <<>> ELSE r.out.value)
    /\ UNCHANGED <<req, products, nextProductId, svcVars, timer, dbVars>>

\* AuthController.login
LoginHandler ==
    /\ AtHandler("login")
    /\ \E dbOk \in BOOLEAN :
          LET out == Login(users, req.body, dbOk)
          IN  Respond("login", out, 200, "Login successful",
                      IF out.threw THEN <<>> ELSE out.value)
    /\ storeCalls' = Append(storeCalls, StoreCall("GetUserByUsername",
                                [Username |-> req.body.username]))
    /\ UNCHANGED <<req, products, nextProductId, users, svcVars, timer, dbVars>>

\* AuthController.getProfile
GetProfileHandler ==
    /\ AtHandler("getProfile")
    /\ \E dbOk \in BOOLEAN :
          LET userRecord == GetUserById(users, req.user.userId, dbOk)
              out == IF userRecord = <<>>
                     THEN Threw(AppError("User not found", 404, "USER_NOT_FOUND"))
                     ELSE Returned([user |-> PublicColumns(userRecord[1])])
          IN  Respond("getProfile", out, 200, "Profile retrieved successfully",
                      IF out.threw THEN <<>> ELSE out.value)
    /\ storeCalls' = Append(storeCalls, StoreCall("SelectUserById",
                                [userId |-> req.user.userId]))
    /\ UNCHANGED <<req, products, nextProductId, users, svcVars, timer, dbVars>>

\* AuthController.refreshToken
RefreshTokenHandler ==
    /\ AtHandler("refreshToken")
    /\ LET tokenParts == Split(AuthorizationHeader(req.headers))
           currentToken == IF Len(tokenParts) >= 2 THEN tokenParts[2] ELSE <<>>
       IN  IF currentToken = <<>>
           THEN /\ Respond("refreshToken",
                           Threw(AppError("Token is required", 400, "TOKEN_REQUIRED")),
                           200, "Token refreshed successfully", <<>>)
                /\ storeCalls' = storeCalls
           ELSE /\ \E dbOk \in BOOLEAN :
                      LET result == RefreshToken(users, currentToken, dbOk)
                      IN  Respond("refreshToken", result, 200,
                                  "Token refreshed successfully",
                                  IF result.threw THEN <<>> ELSE result.value)
                /\ storeCalls' = Append(storeCalls, StoreCall("SelectUserById",
                                            [userId |-> req.user.userId]))
    /\ UNCHANGED <<req, products, nextProductId, users, svcVars, timer, dbVars>>

\* logout that also removes the caller's row, a server-side revocation.
LogoutHandlerRevokes ==
    /\ AtHandler("logout")
    /\ Send(200, Success("Logged out successfully",
                         [loggedOut |-> TRUE, timestamp |-> Now]))
    /\ Stop("logout")
    /\ users' = [x \in (DOMAIN users) \ {req.user.userId} |-> users[x]]
    /\ UNCHANGED <<req, err, storeCalls, products, nextProductId, svcVars, timer, dbVars>>

\* AuthController.logout
LogoutHandler ==
    /\ AtHandler("logout")
    /\ Send(200, Success("Logged out successfully",
                         [loggedOut |-> TRUE, timestamp |-> Now]))
    /\ Stop("logout")
    /\ UNCHANGED <<req, err, storeCalls, products, nextProductId, users, svcVars, timer, dbVars>>

\* ProductController.getAllProducts
GetAllProductsHandler ==
    /\ AtHandler("getAllProducts")
    /\ \E dbOk \in BOOLEAN :
          LET out == GetProducts(products, req.query, dbOk)
          IN  Respond("getAllProducts", out, 200, "Products retrieved successfully",
                      IF out.threw THEN <<>> ELSE out.value)
    /\ storeCalls' = Append(storeCalls, StoreCall("GetProducts", req.query))
    /\ UNCHANGED <<req, products, nextProductId, users, svcVars, timer, dbVars>>

\* ProductController.getProductById
GetProductByIdHandler ==
    /\ AtHandler("getProductById")
    /\ \E dbOk \in BOOLEAN :
          LET product == GetProductById(products, req.params.id, dbOk)
              out == IF product.threw THEN product
                     ELSE IF product.value = <<>>
                     THEN Threw(AppError("Product not found", 404, "PRODUCT_NOT_FOUND"))
                     ELSE Returned(FormatProduct(product.value[1]))
          IN  Respond("getProductById", out, 200, "Product retrieved successfully",
                      IF out.threw THEN <<>> ELSE out.value)
    /\ storeCalls' = Append(storeCalls, StoreCall("GetProductById",
                                [Id |-> req.params.id]))
    /\ UNCHANGED <<req, products, nextProductId, users, svcVars, timer, dbVars>>

\* const searchLimit = limit ? parseInt(limit, 10) : 10, with parseInt over
\* the limit strings drawn here.
SearchLimit(query) ==
    LET parseInt(s) == CASE s = "1" -> 1 [] s = "50" -> 50 [] s = "51" -> 51
                         [] s = "0" -> 0 [] s = "-5" -> 0 - 5
    IN  IF Has(query, "limit") /\ query.limit # "" THEN parseInt(query.limit)
        ELSE 10

\* ProductController.searchProducts
SearchProductsHandler ==
    /\ AtHandler("searchProducts")
    /\ IF ~Has(req.query, "q") \/ req.query.q = ""
       THEN /\ Fail("searchProducts",
                    AppError("Search term is required", 400, "SEARCH_TERM_REQUIRED"))
            /\ UNCHANGED <<res, storeCalls>>
       ELSE \E dbOk \in BOOLEAN :
              LET searchLimit == SearchLimit(req.query)
                  out == SearchProducts(products, req.query.q, searchLimit, dbOk)
              IN  /\ storeCalls' = Append(storeCalls, StoreCall("SearchQuery",
                                        [searchTerm |-> req.query.q,
                                         limit |-> searchLimit]))
                  /\ IF out.threw
                     THEN Fail("searchProducts", out.error) /\ res' = res
                     ELSE /\ Send(200, With(Success("Products search completed",
                                        [k \in DOMAIN out.value |->
                                            FormatProduct(out.value[k])]),
                                   "meta", [searchTerm |-> req.query.q,
                                            resultsCount |-> Len(out.value),
                                            limit |-> searchLimit]))
                          /\ Stop("searchProducts")
                          /\ err' = err
    /\ UNCHANGED <<req, products, nextProductId, users, svcVars, timer, dbVars>>

\* ProductController.createProduct
CreateProductHandler ==
    /\ AtHandler("createProduct")
    /\ nextProductId <= MaxProductId
    /\ \E dbOk \in BOOLEAN :
          LET r == CreateProduct(products, nextProductId, req.body, dbOk)
          IN  /\ products' = r.products
              /\ nextProductId' = r.nextId
              /\ storeCalls' = storeCalls \o r.calls
              /\ Respond("createProduct", r.out, 201, "Product created successfully",
                         IF r.out.threw THEN <<>> ELSE FormatProduct(r.out.value))
    /\ UNCHANGED <<req, users, svcVars, timer, dbVars>>

\* ProductController.updateProduct
UpdateProductHandler ==
    /\ AtHandler("updateProduct")
    /\ \E dbOk1, dbOk2 \in BOOLEAN :
          LET r == UpdateProduct(products, req.params.id, req.body, dbOk1, dbOk2)
          IN  /\ products' = r.products
              /\ storeCalls' = storeCalls \o r.calls
              /\ Respond("updateProduct", r.out, 200, "Product updated successfully",
                         IF r.out.threw THEN <<>> ELSE FormatProduct(r.out.value))
    /\ UNCHANGED <<req, nextProductId, users, svcVars, timer, dbVars>>

\* ProductController.deleteProduct
DeleteProductHandler ==
    /\ AtHandler("deleteProduct")
    /\ \E dbOk1, dbOk2 \in BOOLEAN :
          LET r == DeleteProduct(products, req.params.id, dbOk1, dbOk2)
          IN  /\ products' = r.products
              /\ storeCalls' = storeCalls \o r.calls
              /\ Respond("deleteProduct", r.out, 200, "Product deleted successfully",
                         [id |-> req.params.id, deletedAt |-> Now])
    /\ UNCHANGED <<req, nextProductId, users, svcVars, timer, dbVars>>

\* A 404 written without the error envelope.
NotFoundHandlerUnformatted ==
    /\ phase' = "done"
    /\ Send(404, [text |-> "Cannot serve"])
    /\ trace' = Append(trace, "notFoundHandler")
    /\ UNCHANGED <<req, step, err, storeCalls, products, nextProductId, users, svcVars, timer, dbVars>>

\* notFoundHandler: next(new AppError(..., 404, 'ROUTE_NOT_FOUND'))
NotFoundHandler ==
    /\ phase' = "errorHandler"
    /\ err' = AppError("Route not found", 404, "ROUTE_NOT_FOUND")
    /\ trace' = Append(trace, "notFoundHandler")
    /\ UNCHANGED <<req, step, res, storeCalls, products, nextProductId, users, svcVars, timer, dbVars>>

\* The Swagger handlers: the UI at /api-docs, the document at /api-docs.json.
SwaggerHandler ==
    /\ phase' = "done"
    /\ Send(200, [document |-> req.path])
    /\ trace' = Append(trace, "swagger")
    /\ UNCHANGED <<req, step, err, storeCalls, products, nextProductId, users, svcVars, timer, dbVars>>

\* A request the routers did not take goes to the layer Express dispatches
\* it to.
Unrouted ==
    /\ phase = "unmatched"
    /\ IF Dispatch(req) = "swagger" THEN SwaggerHandler ELSE NotFoundHandler

\* validationErrorHandler: the first error middleware after the routes.
ValidationErrorHandler ==
    /\ phase = "error"
    /\ trace' = Append(trace, "validationErrorHandler")
    /\ IF err.name = "ValidationError"
       THEN /\ Send(400, Envelope([message |-> "Validation failed",
                                   code |-> "VALIDATION_ERROR", statusCode |-> 400,
                                   details |-> <<>>, timestamp |-> Now,
                                   path |-> req.path, method |-> req.method]))
            /\ phase' = "done"
       ELSE /\ phase' = "errorHandler"
            /\ res' = res
    /\ UNCHANGED <<req, step, err, storeCalls, products, nextProductId, users, svcVars, timer, dbVars>>

\* errorHandler: the global error handler.
ErrorHandler ==
    /\ phase = "errorHandler"
    /\ LET r == ErrorResponse(err, req)
       IN  Send(r.status, r.body)
    /\ phase' = "done"
    /\ trace' = Append(trace, "errorHandler")
    /\ UNCHANGED <<req, step, err, storeCalls, products, nextProductId, users, svcVars, timer, dbVars>>

Next ==
    \/ NewRequest
    \/ Finish
    \/ RateLimit
    \/ Validate
    \/ Authenticate
    \/ OptionalAuthenticate
    \/ RegisterHandler
    \/ LoginHandler
    \/ GetProfileHandler
    \/ RefreshTokenHandler
    \/ LogoutHandler
    \/ GetAllProductsHandler
    \/ GetProductByIdHandler
    \/ SearchProductsHandler
    \/ CreateProductHandler
    \/ UpdateProductHandler
    \/ DeleteProductHandler
    \/ Unrouted
    \/ ValidationErrorHandler
    \/ ErrorHandler

Spec == Init /\ [][Next]_vars


(***************************************************************************)
(* The request timeout middleware (app.ts)                                 *)
(***************************************************************************)
\* The requests followed under the timer.
TimeoutRequests ==
    {Request("POST", "/api/products", h, EmptyObj, EmptyObj, b) :
        h \in FewHeaders,
        b \in {EmptyObj, [name |-> "Gadget", price |-> 150, category |-> "Toys"]}}
    \cup {Request("POST", "/api/auth/login", EmptyObj, EmptyObj, EmptyObj, b) :
        b \in {[username |-> "alice", password |-> "pw1"],
               [username |-> "nobody", password |-> "pw1"]}}
    \cup {Request("GET", "/api/unknown", EmptyObj, EmptyObj, EmptyObj, EmptyObj)}

\* A request passes the timeout middleware: setTimeout(...); next()
TimedRequest ==
    /\ phase = "idle"
    /\ \E r \in TimeoutRequests :
          /\ req' = r
          /\ phase' = IF Dispatch(r) = "routes" THEN "chain" ELSE "unmatched"
    /\ timer' = "armed"
    /\ step' = 1
    /\ res' = <<>>
    /\ err' = NoError
    /\ trace' = <<>>
    /\ storeCalls' = <<>>
    /\ UNCHANGED <<products, nextProductId, users, svcVars, dbVars>>

\* The body of the 408 of the timeout middleware.
TimeoutBody ==
    Envelope([message |-> "Request timeout", code |-> "REQUEST_TIMEOUT",
              statusCode |-> 408, timestamp |-> Now])

\* The timer callback without its headersSent test.
TimerFiresUnconditionally ==
    /\ timer = "armed"
    /\ timer' = "fired"
    /\ Send(408, TimeoutBody)
    /\ UNCHANGED <<phase, req, step, err, trace, storeCalls, products,
                   nextProductId, users, svcVars, dbVars>>

\* The timer callback: if (!res.headersSent) res.status(408).json(...)
TimerFires ==
    /\ timer = "armed"
    /\ timer' = "fired"
    /\ IF res = <<>> THEN Send(408, TimeoutBody) ELSE res' = res
    /\ UNCHANGED <<phase, req, step, err, trace, storeCalls, products,
                   nextProductId, users, svcVars, dbVars>>

\* res.on('finish'): clearTimeout(timer); the handler chain has ended too.
TimedFinish ==
    /\ phase = "done"
    /\ phase' = "idle"
    /\ timer' = "off"
    /\ req' = NoRequest
    /\ step' = 1
    /\ res' = <<>>
    /\ err' = NoError
    /\ trace' = <<>>
    /\ storeCalls' = <<>>
    /\ UNCHANGED <<products, nextProductId, users, svcVars, dbVars>>

TimeoutNext ==
    \/ TimedRequest
    \/ TimerFires
    \/ TimedFinish
    \/ RateLimit
    \/ Validate
    \/ Authenticate
    \/ CreateProductHandler
    \/ LoginHandler
    \/ Unrouted
    \/ ValidationErrorHandler
    \/ ErrorHandler

\* The event loop runs a due timer callback; a handler may never finish.
SpecTimeout == Init /\ [][TimeoutNext]_vars /\ WF_vars(TimerFires)

(***************************************************************************)
(* A call of the product service, one store call per step                  *)
(***************************************************************************)
\* Every UpdateProductDto over these values: each key present or absent.
Partials ==
    {n @@ d @@ p @@ c :
        n \in {EmptyObj, [name |-> "Gadget"]},
        d \in {EmptyObj, [description |-> ""], [description |-> "New"]},
        p \in {EmptyObj, [price |-> 150]},
        c \in {EmptyObj, [category |-> "Toys"]}}

ServiceIds == {1, 2}

\* updateProduct(id, productData) is called.
SvcCallUpdate ==
    /\ svcPc = "idle"
    /\ \E id \in ServiceIds, productData \in Partials :
          svcCall' = [op |-> "updateProduct", id |-> id, data |-> productData]
    /\ svcPc' = "check"
    /\ svcCalls' = <<>>
    /\ UNCHANGED <<pipeVars, timer, dbVars, products, nextProductId, users, svcExisting, svcResult>>

\* deleteProduct(id) is called.
SvcCallDelete ==
    /\ svcPc = "idle"
    /\ \E id \in ServiceIds : svcCall' = [op |-> "deleteProduct", id |-> id]
    /\ svcPc' = "check"
    /\ svcCalls' = <<>>
    /\ UNCHANGED <<pipeVars, timer, dbVars, products, nextProductId, users, svcExisting, svcResult>>

\* "First check if product exists": await this.getProductById(id)
SvcCheckExists ==
    /\ svcPc = "check"
    /\ \E dbOk \in BOOLEAN :
          LET check == CheckExists(products, svcCall.id, dbOk)
              \* rows the store returned to this read; -1 when the call failed
              rows == IF dbOk THEN Len(SP_GetProductById(products, svcCall.id)) ELSE -1
          IN  /\ svcCalls' = Append(svcCalls,
                        With(StoreCall("GetProductById", [Id |-> svcCall.id]),
                             "rows", rows))
              /\ IF check.threw
                 THEN /\ svcResult' = check
                      /\ svcPc' = "done"
                      /\ svcExisting' = svcExisting
                 ELSE /\ svcExisting' = <<check.value>>
                      /\ svcPc' = "mutate"
                      /\ svcResult' = svcResult
    /\ UNCHANGED <<pipeVars, timer, dbVars, products, nextProductId, users, svcCall>>

\* updateProduct: merge, then await executeStoredProcedure('UpdateProduct', input)
SvcUpdate ==
    /\ svcPc = "mutate"
    /\ svcCall.op = "updateProduct"
    /\ \E dbOk \in BOOLEAN :
          LET m == UpdateMutate(products, svcCall.id, svcCall.data, svcExisting[1], dbOk)
          IN  /\ products' = m.products
              /\ svcCalls' = svcCalls \o m.calls
              /\ svcResult' = m.out
    /\ svcPc' = "done"
    /\ UNCHANGED <<pipeVars, timer, dbVars, nextProductId, users, svcCall, svcExisting>>

\* deleteProduct: await executeStoredProcedure('DeleteProduct', input)
SvcDelete ==
    /\ svcPc = "mutate"
    /\ svcCall.op = "deleteProduct"
    /\ \E dbOk \in BOOLEAN :
          LET m == DeleteMutate(products, svcCall.id, dbOk)
          IN  /\ products' = m.products
              /\ svcCalls' = svcCalls \o m.calls
              /\ svcResult' = m.out
    /\ svcPc' = "done"
    /\ UNCHANGED <<pipeVars, timer, dbVars, nextProductId, users, svcCall, svcExisting>>

\* The caller has taken the result.
SvcReturn ==
    /\ svcPc = "done"
    /\ svcPc' = "idle"
    /\ svcCall' = [op |-> "none"]
    /\ svcExisting' = <<>>
    /\ svcCalls' = <<>>
    /\ svcResult' = [threw |-> FALSE, value |-> <<>>]
    /\ UNCHANGED <<pipeVars, timer, dbVars, products, nextProductId, users>>

SvcNext ==
    \/ SvcCallUpdate
    \/ SvcCallDelete
    \/ SvcCheckExists
    \/ SvcUpdate
    \/ SvcDelete
    \/ SvcReturn

SpecSvc == Init /\ [][SvcNext]_vars

(***************************************************************************)
(* The connection pool (DatabaseConnection): concurrent getPool() calls    *)
(***************************************************************************)
\* Caller c calls getPool() and runs to its first await: with a connected
\* pool it returns at once; otherwise it enters connect(), where it either
\* waits on the connecting flag or starts a connection attempt.
GetPool(c) ==
    /\ poolPc[c] = "idle"
    /\ IF pool # <<>> /\ pool[1].connected
       THEN /\ poolPc' = [poolPc EXCEPT ![c] = "returned"]
            /\ poolGot' = [poolGot EXCEPT ![c] = pool]
            /\ UNCHANGED <<pool, connecting>>
       ELSE IF connecting
       THEN /\ poolPc' = [poolPc EXCEPT ![c] = "waiting"]
            /\ UNCHANGED <<pool, connecting, poolGot>>
       ELSE /\ connecting' = TRUE
            /\ pool' = <<[connected |-> FALSE]>>
            /\ poolPc' = [poolPc EXCEPT ![c] = "attempting"]
            /\ poolGot' = poolGot
    /\ UNCHANGED <<pipeVars, timer, products, nextProductId, users, svcVars>>

\* Caller c wakes from its 100 ms sleep and finds the flag down: connect()
\* returns, and getPool() returns this.pool, or throws when it is null.
WaitOver(c) ==
    /\ poolPc[c] = "waiting"
    /\ ~connecting
    /\ IF pool = <<>>
       THEN /\ poolPc' = [poolPc EXCEPT ![c] = "threw"]
            /\ poolGot' = poolGot
       ELSE /\ poolPc' = [poolPc EXCEPT ![c] = "returned"]
            /\ poolGot' = [poolGot EXCEPT ![c] = pool]
    /\ UNCHANGED <<pipeVars, timer, products, nextProductId, users, svcVars, pool,
                   connecting>>

\* await this.pool.connect() resolves for caller c: the flag is lowered and
\* getPool() returns the pool.
ConnectSucceeds(c) ==
    /\ poolPc[c] = "attempting"
    /\ pool' = <<[connected |-> TRUE]>>
    /\ connecting' = FALSE
    /\ poolPc' = [poolPc EXCEPT ![c] = "returned"]
    /\ poolGot' = [poolGot EXCEPT ![c] = pool']
    /\ UNCHANGED <<pipeVars, timer, products, nextProductId, users, svcVars>>

\* await this.pool.connect() rejects for caller c: connect() throws, its
\* finally block lowers the flag, and this.pool keeps the pool that failed.
ConnectFails(c) ==
    /\ poolPc[c] = "attempting"
    /\ connecting' = FALSE
    /\ poolPc' = [poolPc EXCEPT ![c] = "threw"]
    /\ UNCHANGED <<pipeVars, timer, products, nextProductId, users, svcVars, pool,
                   poolGot>>

\* Caller c's request has used the pool or handled the error.
PoolCallOver(c) ==
    /\ poolPc[c] \in {"returned", "threw"}
    /\ poolPc' = [poolPc EXCEPT ![c] = "idle"]
    /\ poolGot' = [poolGot EXCEPT ![c] = <<>>]
    /\ UNCHANGED <<pipeVars, timer, products, nextProductId, users, svcVars, pool,
                   connecting>>

\* The server drops the connection of a connected pool.
ConnectionLost ==
    /\ pool # <<>>
    /\ pool[1].connected
    /\ pool' = <<[connected |-> FALSE]>>
    /\ UNCHANGED <<pipeVars, timer, products, nextProductId, users, svcVars,
                   connecting, poolPc, poolGot>>

PoolNext ==
    \/ \E c \in PoolCallers :
          \/ GetPool(c)
          \/ WaitOver(c)
          \/ ConnectSucceeds(c)
          \/ ConnectFails(c)
          \/ PoolCallOver(c)
    \/ ConnectionLost

SpecPool == Init /\ [][PoolNext]_vars

(***************************************************************************)
(* A call of getStatistics, one store query per step, while other requests *)
(* create and delete products                                              *)
(***************************************************************************)
\* getStatistics() is called.
StatsCall ==
    /\ svcPc = "idle"
    /\ svcCall' = [op |-> "getStatistics"]
    /\ svcPc' = "stats"
    /\ svcCalls' = <<>>
    /\ svcExisting' = <<>>
    /\ UNCHANGED <<pipeVars, timer, dbVars, products, nextProductId, users, svcResult>>

\* The next of the three awaited queries; svcExisting keeps the recordsets
\* read so far. A failing query ends the call with STATISTICS_FETCH_ERROR;
\* after the third one the result is built.
StatsQuery ==
    /\ svcPc = "stats"
    /\ \E dbOk \in BOOLEAN :
          LET k == Len(svcExisting) + 1
              recordset == CASE k = 1 -> OverallStats(products)
                             [] k = 2 -> CategoryStats(products)
                             [] k = 3 -> PriceRangeStats(products)
              result == ExecuteQuery(dbOk, recordset)
          IN  /\ svcCalls' = Append(svcCalls, StoreCall("StatisticsQuery", [query |-> k]))
              /\ IF result.threw
                 THEN /\ svcResult' = Threw(AppError("Failed to retrieve statistics",
                                                     500, "STATISTICS_FETCH_ERROR"))
                      /\ svcPc' = "done"
                      /\ svcExisting' = svcExisting
                 ELSE /\ svcExisting' = Append(svcExisting, recordset)
                      /\ IF k = 3
                         THEN /\ svcResult' = Returned(Statistics(svcExisting[1],
                                                                  svcExisting[2],
                                                                  recordset))
                              /\ svcPc' = "done"
                         ELSE /\ svcResult' = svcResult
                              /\ svcPc' = svcPc
    /\ UNCHANGED <<pipeVars, timer, dbVars, products, nextProductId, users, svcCall>>

\* Another request's createProduct reaches the store.
CreatedMeanwhile ==
    /\ nextProductId <= MaxProductId
    /\ \E productData \in {[name |-> "Gadget", price |-> 150, category |-> "Toys"],
                            [name |-> "Gizmo", price |-> 40, category |-> "Tools"]} :
          LET r == CreateProduct(products, nextProductId, productData, TRUE)
          IN  /\ products' = r.products
              /\ nextProductId' = r.nextId
    /\ UNCHANGED <<pipeVars, timer, dbVars, users, svcVars>>

\* Another request's deleteProduct reaches the store.
DeletedMeanwhile ==
    /\ \E id \in DOMAIN products :
          products' = DeleteMutate(products, id, TRUE).products
    /\ UNCHANGED <<pipeVars, timer, dbVars, nextProductId, users, svcVars>>

StatsNext ==
    \/ StatsCall
    \/ StatsQuery
    \/ CreatedMeanwhile
    \/ DeletedMeanwhile
    \/ SvcReturn

SpecStats == Init /\ [][StatsNext]_vars

(***************************************************************************)
(* Two concurrent calls of the product service                             *)
(***************************************************************************)
\* The requests being served at the same time: each await of a call is a
\* point where the other call may run.
Callers == {1, 2}

\* The calls a request may make on the seeded product.
RaceCalls ==
    {[op |-> "deleteProduct", id |-> 1],
     [op |-> "updateProduct", id |-> 1, data |-> [price |-> 150]],
     [op |-> "updateProduct", id |-> 1, data |-> [name |-> "Gadget"]]}

\* The service variables, one value per caller.
InitRace ==
    /\ products = InitialProducts
    /\ phase = "idle"
    /\ req = NoRequest
    /\ step = 1
    /\ res = <<>>
    /\ err = NoError
    /\ trace = <<>>
    /\ storeCalls = <<>>
    /\ timer = "off"
    /\ pool = <<>>
    /\ connecting = FALSE
    /\ poolPc = [c \in PoolCallers |-> "idle"]
    /\ poolGot = [c \in PoolCallers |-> <<>>]
    /\ nextProductId = 2
    /\ users = InitialUsers
    /\ svcPc = [c \in Callers |-> "idle"]
    /\ svcCall = [c \in Callers |-> [op |-> "none"]]
    /\ svcExisting = [c \in Callers |-> <<>>]
    /\ svcCalls = [c \in Callers |-> <<>>]
    /\ svcResult = [c \in Callers |-> [threw |-> FALSE, value |-> <<>>]]

\* Caller c enters updateProduct or deleteProduct.
RaceCall(c) ==
    /\ svcPc[c] = "idle"
    /\ \E call \in RaceCalls : svcCall' = [svcCall EXCEPT ![c] = call]
    /\ svcPc' = [svcPc EXCEPT ![c] = "check"]
    /\ UNCHANGED <<pipeVars, timer, dbVars, products, nextProductId, users, svcExisting, svcCalls,
                   svcResult>>

\* Caller c: await this.getProductById(id); if (!existingProduct) throw
RaceCheckExists(c) ==
    /\ svcPc[c] = "check"
    /\ \E dbOk \in BOOLEAN :
          LET check == CheckExists(products, svcCall[c].id, dbOk)
              rows == IF dbOk THEN Len(SP_GetProductById(products, svcCall[c].id))
                      ELSE -1
          IN  /\ svcCalls' = [svcCalls EXCEPT ![c] =
                      Append(@, With(StoreCall("GetProductById",
                                               [Id |-> svcCall[c].id]),
                                     "rows", rows))]
              /\ IF check.threw
                 THEN /\ svcResult' = [svcResult EXCEPT ![c] = check]
                      /\ svcPc' = [svcPc EXCEPT ![c] = "done"]
                      /\ svcExisting' = svcExisting
                 ELSE /\ svcExisting' = [svcExisting EXCEPT ![c] = <<check.value>>]
                      /\ svcPc' = [svcPc EXCEPT ![c] = "mutate"]
                      /\ svcResult' = svcResult
    /\ UNCHANGED <<pipeVars, timer, dbVars, products, nextProductId, users, svcCall>>

\* Caller c: the mutating store call of its operation, and the result.
\* The logged call keeps whether the procedure ran (reached) and raised.
RaceMutate(c) ==
    /\ svcPc[c] = "mutate"
    /\ \E dbOk \in BOOLEAN :
          LET m == IF svcCall[c].op = "updateProduct"
                   THEN UpdateMutate(products, svcCall[c].id, svcCall[c].data,
                                     svcExisting[c][1], dbOk)
                   ELSE DeleteMutate(products, svcCall[c].id, dbOk)
          IN  /\ products' = m.products
              /\ svcCalls' = [svcCalls EXCEPT ![c] =
                      @ \o [k \in DOMAIN m.calls |->
                               With(With(m.calls[k], "reached", dbOk),
                                    "found", svcCall[c].id \in DOMAIN products)]]
              /\ svcResult' = [svcResult EXCEPT ![c] = m.out]
    /\ svcPc' = [svcPc EXCEPT ![c] = "done"]
    /\ UNCHANGED <<pipeVars, timer, dbVars, nextProductId, users, svcCall, svcExisting>>

\* Caller c's request has taken the result.
RaceReturn(c) ==
    /\ svcPc[c] = "done"
    /\ svcPc' = [svcPc EXCEPT ![c] = "idle"]
    /\ svcCall' = [svcCall EXCEPT ![c] = [op |-> "none"]]
    /\ svcExisting' = [svcExisting EXCEPT ![c] = <<>>]
    /\ svcCalls' = [svcCalls EXCEPT ![c] = <<>>]
    /\ svcResult' = [svcResult EXCEPT ![c] = [threw |-> FALSE, value |-> <<>>]]
    /\ UNCHANGED <<pipeVars, timer, dbVars, products, nextProductId, users>>

RaceNext ==
    \E c \in Callers :
        \/ RaceCall(c)
        \/ RaceCheckExists(c)
        \/ RaceMutate(c)
        \/ RaceReturn(c)

SpecRace == InitRace /\ [][RaceNext]_vars

(***************************************************************************)
(* A call of getProducts over every store of the catalogue                 *)
(***************************************************************************)
MaxPageNumber == 3
MaxPageSize == 3

\* The rows a Products table may hold.
Catalogue ==
    InitialProducts
    @@ (2 :> [id |-> 2, name |-> "Gadget", description |-> "New", price |-> 150,
              category |-> "Toys", createdAt |-> T0, updatedAt |-> T0])
    @@ (3 :> [id |-> 3, name |-> "Gizmo", description |-> Null, price |-> 50,
              category |-> "Tools", createdAt |-> T0, updatedAt |-> T0])

\* Every Products table over the catalogue, the empty one included.
ListStores == {[i \in S |-> Catalogue[i]] : S \in SUBSET DOMAIN Catalogue}

\* Every validated ProductQuery over these values: each key present or absent.
ListQueries ==
    {pn @@ ps @@ c @@ mn @@ mx :
        pn \in {EmptyObj} \cup {[pageNumber |-> n] : n \in 1..MaxPageNumber},
        ps \in {EmptyObj} \cup {[pageSize |-> n] : n \in 1..MaxPageSize},
        c \in {EmptyObj, [category |-> "Tools"]},
        mn \in {EmptyObj, [minPrice |-> 100]},
        mx \in {EmptyObj, [maxPrice |-> 100], [maxPrice |-> 120]}}

InitList ==
    /\ products \in ListStores
    /\ phase = "idle"
    /\ req = NoRequest
    /\ step = 1
    /\ res = <<>>
    /\ err = NoError
    /\ trace = <<>>
    /\ storeCalls = <<>>
    /\ timer = "off"
    /\ pool = <<>>
    /\ connecting = FALSE
    /\ poolPc = [c \in PoolCallers |-> "idle"]
    /\ poolGot = [c \in PoolCallers |-> <<>>]
    /\ nextProductId = 2
    /\ users = InitialUsers
    /\ svcPc = "idle"
    /\ svcCall = [op |-> "none"]
    /\ svcExisting = <<>>
    /\ svcCalls = <<>>
    /\ svcResult = [threw |-> FALSE, value |-> <<>>]

\* getProducts(query) is called.
ListCall ==
    /\ svcPc = "idle"
    /\ \E query \in ListQueries : svcCall' = [op |-> "getProducts", query |-> query]
    /\ svcPc' = "query"
    /\ svcCalls' = <<>>
    /\ UNCHANGED <<pipeVars, timer, dbVars, products, nextProductId, users, svcExisting, svcResult>>

\* getProducts: await executeStoredProcedure('GetProducts', input), and the
\* result built from its recordset. svcExisting keeps the recordset.
ListQuery ==
    /\ svcPc = "query"
    /\ \E dbOk \in BOOLEAN :
          LET input == GetProductsInput(svcCall.query)
              recordset == SP_GetProducts(products, input)
          IN  /\ svcCalls' = <<With(StoreCall("GetProducts", input), "rows",
                                    IF dbOk THEN Len(recordset) ELSE -1)>>
              /\ svcExisting' = IF dbOk THEN recordset ELSE <<>>
              /\ svcResult' = GetProducts(products, svcCall.query, dbOk)
    /\ svcPc' = "done"
    /\ UNCHANGED <<pipeVars, timer, dbVars, products, nextProductId, users, svcCall>>

ListNext ==
    \/ ListCall
    \/ ListQuery
    \/ SvcReturn

SpecList == InitList /\ [][ListNext]_vars


(***************************************************************************)
(* Properties                                                              *)
(***************************************************************************)
HandlerNames ==
    {"register", "login", "getProfile", "refreshToken", "logout", "getAllProducts",
     "getProductById", "searchProducts", "createProduct", "updateProduct", "deleteProduct"}

InTrace(name) == \E i \in DOMAIN trace : trace[i] = name
HandlerInvoked == \E i \in DOMAIN trace : trace[i] \in HandlerNames
LastStep == IF trace = <<>> THEN "" ELSE trace[Len(trace)]

\* The route of the current request has the required gate in its chain.
BearerRequired ==
    \E i \in DOMAIN Chain(req) : Chain(req)[i].kind = "authenticate"

\* The Authorization header is present and reads "Bearer", one space, and a
\* non-empty token without spaces.
WellFormedBearer(headers) ==
    /\ "authorization" \in DOMAIN headers
    /\ Len(headers.authorization) >= 3
    /\ headers.authorization[1] = "Bearer"
    /\ headers.authorization[2] = " "
    /\ \A i \in 3..Len(headers.authorization) : headers.authorization[i] # " "

\* The token of a well-formed header verifies (signature and expiry).
TokenVerifies(headers) ==
    /\ Len(headers.authorization) = 3
    /\ headers.authorization[3] \in DOMAIN TokenTable
    /\ TokenTable[headers.authorization[3]].verify = "ok"

TokenUserExists(headers) ==
    TokenTable[headers.authorization[3]].payload.userId \in DOMAIN users

GateAccepts(headers) ==
    WellFormedBearer(headers) /\ TokenVerifies(headers) /\ TokenUserExists(headers)

\* C1: on a bearer-required route the handler is invoked (and a handler's
\* store call made) only for a header "Bearer <non-empty token>" whose token
\* verifies and whose user is in the store; a request the gate has seen and
\* that fails any of these has been answered 401, once, and its handler has
\* not run.
C1_RequiredGate ==
    (phase # "idle" /\ BearerRequired) =>
        /\ HandlerInvoked => GateAccepts(req.headers)
        /\ (\E i \in DOMAIN storeCalls : storeCalls[i].proc # "SelectUserById")
               => GateAccepts(req.headers)
        /\ (InTrace("authenticate") /\ ~GateAccepts(req.headers)) =>
               /\ Len(res) = 1
               /\ res[1].status = 401
               /\ ~HandlerInvoked
               /\ LastStep = "authenticate"

C1_Witness ==
    /\ phase = "done"
    /\ BearerRequired
    /\ InTrace("authenticate")
    /\ InTrace("deleteProduct")
    /\ \E i \in DOMAIN storeCalls : storeCalls[i].proc = "DeleteProduct"

\* A validate middleware runs in this step.
ValidateStep == AtMw("validate") /\ trace' = Append(trace, "validate")

\* Some surface the instance was configured with has a violation.
SomeSurfaceViolated ==
    \E k \in DOMAIN Current.options : SchemaErrors(Current.options[k], req[k]) # <<>>

\* C2: a validate middleware that finds a violation in a surface it was
\* configured with answers 400 VALIDATION_ERROR with a non-empty details
\* list and does not call next; it calls next, writing nothing, exactly
\* when there is no violation.
C2_ValidationGate ==
    [][ValidateStep =>
         IF SomeSurfaceViolated
         THEN /\ phase' = "done"
              /\ step' = step
              /\ Len(res') = Len(res) + 1
              /\ res'[Len(res')].status = 400
              /\ res'[Len(res')].body.error.code = "VALIDATION_ERROR"
              /\ res'[Len(res')].body.error.details # <<>>
         ELSE /\ phase' = "chain"
              /\ step' = step + 1
              /\ res' = res]_vars

\* C2, the state view: a request rejected by validate never reaches a handler.
C2_Witness ==
    /\ phase = "done"
    /\ LastStep = "validate"
    /\ ~HandlerInvoked
    /\ res[1].status = 400
    /\ Len(res[1].body.error.details) >= 2

MutatingProcs == {"UpdateProduct", "DeleteProduct"}

\* C3: within a call of updateProduct or deleteProduct the GetProductById
\* read of the same id comes before the mutating store call, and a read
\* that returned no row ends the call with the 404 PRODUCT_NOT_FOUND error
\* and no mutating store call.
C3_ExistenceChecked ==
    /\ \A i \in DOMAIN svcCalls :
          svcCalls[i].proc \in MutatingProcs =>
              /\ i = 2
              /\ svcCalls[1].proc = "GetProductById"
              /\ svcCalls[1].input.Id = svcCalls[i].input.Id
              /\ svcCalls[1].rows = 1
    /\ (Len(svcCalls) >= 1 /\ svcCalls[1].rows = 0) =>
          /\ svcPc = "done"
          /\ Len(svcCalls) = 1
          /\ svcResult.threw
          /\ svcResult.error.statusCode = 404
          /\ svcResult.error.code = "PRODUCT_NOT_FOUND"

C3_Witness ==
    /\ svcPc = "done"
    /\ svcCall.op = "deleteProduct"
    /\ svcCall.id = 1
    /\ Len(svcCalls) = 1
    /\ svcCalls[1].rows = 0
    /\ svcResult.threw
    /\ svcResult.error.code = "PRODUCT_NOT_FOUND"

\* C4: the UpdateProduct store call carries, for name, price and category,
\* the partial's value when the key is present and the value of the row read
\* by the existence check otherwise; an absent description keeps the row's
\* description; a description given as "" counts as provided and replaces it
\* (the call carries null); any other description is carried as given.
C4_PartialMerge ==
    \A i \in DOMAIN svcCalls :
        svcCalls[i].proc = "UpdateProduct" =>
            LET input == svcCalls[i].input
                partial == svcCall.data
                existing == svcExisting[1]
            IN  /\ input.Id = svcCall.id
                /\ input.Name = IF "name" \in DOMAIN partial THEN partial.name
                                ELSE existing.name
                /\ input.Price = IF "price" \in DOMAIN partial THEN partial.price
                                 ELSE existing.price
                /\ input.Category = IF "category" \in DOMAIN partial
                                    THEN partial.category ELSE existing.category
                /\ "description" \notin DOMAIN partial =>
                       input.Description = existing.description
                /\ ("description" \in DOMAIN partial /\ partial.description = "") =>
                       input.Description = Null
                /\ ("description" \in DOMAIN partial /\ partial.description # "") =>
                       input.Description = partial.description

C4_Witness ==
    /\ svcPc = "done"
    /\ svcCall.op = "updateProduct"
    /\ DOMAIN svcCall.data = {"description", "price"}
    /\ svcCall.data.description = ""
    /\ Len(svcCalls) = 2
    /\ svcExisting[1].description = "Old"
    /\ svcCalls[2].input.Description = Null
    /\ svcCalls[2].input.Name = "Widget"
    /\ ~svcResult.threw

\* The route of the current request has the optional gate in its chain.
OptionalRoute ==
    \E i \in DOMAIN Chain(req) : Chain(req)[i].kind = "optionalAuthenticate"

Occurrences(name) == Cardinality({i \in DOMAIN trace : trace[i] = name})

\* C5: optionalAuthenticate writes no response and calls next once, so the
\* handler follows it whatever the header; an identity is on the request
\* only if the header reads "Bearer <token>" and the token verified, and it
\* is then the token's payload.
C5_OptionalGate ==
    (phase # "idle" /\ OptionalRoute) =>
        /\ \A i \in DOMAIN res : res[i].status # 401
        /\ Has(req, "user") =>
               /\ WellFormedBearer(req.headers)
               /\ TokenVerifies(req.headers)
               /\ req.user = TokenTable[req.headers.authorization[3]].payload
        /\ Occurrences("optionalAuthenticate") <= 1
        /\ LastStep = "optionalAuthenticate" =>
               /\ res = <<>>
               /\ AtHandler("getAllProducts")
        /\ (InTrace("optionalAuthenticate") /\ LastStep # "optionalAuthenticate")
               => InTrace("getAllProducts")

C5_Witness ==
    /\ phase = "done"
    /\ OptionalRoute
    /\ req.headers = [authorization |-> <<"Bearer", " ", "tokExp">>]
    /\ InTrace("optionalAuthenticate")
    /\ InTrace("getAllProducts")
    /\ ~Has(req, "user")
    /\ Len(res) = 1
    /\ res[1].status = 200

EnvelopeKeys == {"message", "code", "statusCode", "timestamp", "path", "method"}

\* C6: every validation (400), authentication (401), not-found (404) and
\* infrastructure (500) failure response has the one envelope: an `error`
\* object with message, code, statusCode, timestamp, path and method, its
\* statusCode the response's status.
C6_UniformEnvelope ==
    \A i \in DOMAIN res :
        res[i].status \in {400, 401, 404, 500} =>
            /\ "error" \in DOMAIN res[i].body
            /\ EnvelopeKeys \subseteq DOMAIN res[i].body.error
            /\ res[i].body.error.statusCode = res[i].status

LoginExchangeOver ==
    /\ phase = "done"
    /\ req.method = "POST"
    /\ req.path = "/api/auth/login"
    /\ InTrace("login")

\* The submitted username is in the store and the submitted password
\* matches its hash.
CredentialsVerify ==
    /\ SP_GetUserByUsername(users, req.body.username) # <<>>
    /\ BcryptCompare(req.body.password,
                     SP_GetUserByUsername(users, req.body.username)[1].passwordHash)

\* C7: a login for an unknown user or with a wrong password is answered 401,
\* and a login answered 200 with a token is one whose user exists and whose
\* password verifies.
C7_BadCredentials401 ==
    LoginExchangeOver =>
        /\ ~CredentialsVerify => res[Len(res)].status = 401
        /\ res[Len(res)].status = 200 => CredentialsVerify

UpdateRoute == req.method = "PUT" /\ req.path = "/api/products/:id"

Range(seq) == {seq[i] : i \in DOMAIN seq}

\* A validate instance has answered the current request.
RejectedByValidate == phase = "done" /\ LastStep = "validate"

\* C8 as stated: a request to the update route rejected for its id, whose
\* body is invalid too, gets the id violations and the body violations in
\* the one 400 response.
C8_AllSurfacesInOneResponse ==
    (RejectedByValidate /\ UpdateRoute /\ Chain(req)[step].options = [params |-> "productIdSchema"]) =>
        /\ Range(SchemaErrors("productIdSchema", req.params))
               \subseteq Range(res[1].body.error.details)
        /\ Range(SchemaErrors("updateProductSchema", req.body))
               \subseteq Range(res[1].body.error.details)

\* C8 amended: every validate instance of the routes covers one surface, and
\* the 400 of the instance that rejects lists all the violations of that
\* surface and nothing else; a later instance of the chain has not run, so
\* on the update route an invalid id hides the body's violations.
C8_EachInstanceReportsItsSurface ==
    RejectedByValidate =>
        /\ Len(res) = 1
        /\ res[1].status = 400
        /\ Occurrences("validate") = Cardinality({i \in 1..step :
                                          Chain(req)[i].kind = "validate"})
        /\ Cardinality(DOMAIN Chain(req)[step].options) = 1
        /\ \A k \in DOMAIN Chain(req)[step].options :
              res[1].body.error.details =
                  SchemaErrors(Chain(req)[step].options[k], req[k])

C8_Witness ==
    /\ RejectedByValidate
    /\ UpdateRoute
    /\ Chain(req)[step].options = [params |-> "productIdSchema"]
    /\ Len(SchemaErrors("updateProductSchema", req.body)) >= 2
    /\ res[1].body.error.details = SchemaErrors("productIdSchema", req.params)
    /\ Range(SchemaErrors("updateProductSchema", req.body))
           \cap Range(res[1].body.error.details) = {}

\* Position in the order rate-limit, validate, authenticate, handler.
StatedRank(name) ==
    IF name = "rateLimit" THEN 1
    ELSE IF name = "validate" THEN 2
    ELSE IF name \in {"authenticate", "optionalAuthenticate"} THEN 3
    ELSE IF name \in HandlerNames THEN 4
    ELSE 5

\* Position in the order rate-limit, authenticate, validate,
\* optionalAuthenticate, handler.
RouteRank(name) ==
    IF name = "rateLimit" THEN 1
    ELSE IF name = "authenticate" THEN 2
    ELSE IF name = "validate" THEN 3
    ELSE IF name = "optionalAuthenticate" THEN 4
    ELSE IF name \in HandlerNames THEN 5
    ELSE 6

\* C9 as stated: the steps of a request run in the order rate-limit,
\* validate, authenticate, handler.
C9_ValidateBeforeAuthenticate ==
    \A i, j \in DOMAIN trace : i < j => StatedRank(trace[i]) <= StatedRank(trace[j])

\* C9 amended: the rate-limit step runs first and the handler after every
\* gate, but the required gate runs before validation (create, update and
\* delete of products); only the optional gate of the product list runs
\* after validation.
C9_AuthenticateBeforeValidate ==
    /\ \A i, j \in DOMAIN trace : i < j => RouteRank(trace[i]) <= RouteRank(trace[j])
    /\ \A i \in DOMAIN trace : trace[i] = "rateLimit" => i = 1
    /\ Cardinality({i \in DOMAIN trace : trace[i] \in HandlerNames}) <= 1

C9_Witness ==
    /\ phase = "done"
    /\ trace = <<"rateLimit", "authenticate", "validate", "createProduct">>
    /\ res[1].status = 201

\* C10: for an error without statusCode and code the global error handler
\* answers with statusCode 500 and code INTERNAL_ERROR; otherwise with the
\* error's own.
C10_DefaultStatusAndCode ==
    (phase = "done" /\ LastStep = "errorHandler") =>
        /\ res[Len(res)].status =
               (IF Has(err, "statusCode") THEN err.statusCode ELSE 500)
        /\ "code" \in DOMAIN res[Len(res)].body.error
        /\ res[Len(res)].body.error.code =
               (IF Has(err, "code") THEN err.code ELSE "INTERNAL_ERROR")

\* The messages DatabaseConnection builds around the text of a store error.
RawStoreMessages ==
    {SPFailedMessage(cause) :
        cause \in {"Product not found", "Username or email already exists",
                   "Connection lost"}}
    \cup {"Query execution failed: Connection lost"}

\* C11: a store failure reaches the client as a generic typed error: no
\* response carries a message built around the text of the store error, and
\* the error object that replaces it has a machine code.
C11_StoreErrorsRewrapped ==
    \A i \in DOMAIN res :
        ("error" \in DOMAIN res[i].body /\ "message" \in DOMAIN res[i].body.error) =>
            /\ res[i].body.error.message \notin RawStoreMessages
            /\ ("message" \in DOMAIN err /\ err.message \in RawStoreMessages)
                   => "code" \in DOMAIN res[i].body.error

\* Why the required gate must reject the request, read off the request and
\* the store: one of the five causes, or "none".
RejectionCause(headers) ==
    IF "authorization" \notin DOMAIN headers \/ headers.authorization = <<>>
    THEN "missing"
    ELSE IF ~WellFormedBearer(headers) THEN "format"
    ELSE IF Len(headers.authorization) = 3
            /\ headers.authorization[3] \in DOMAIN TokenTable
            /\ TokenTable[headers.authorization[3]].verify = "TokenExpiredError"
    THEN "expired"
    ELSE IF Len(headers.authorization) # 3
            \/ headers.authorization[3] \notin DOMAIN TokenTable
            \/ TokenTable[headers.authorization[3]].verify = "JsonWebTokenError"
    THEN "invalid"
    ELSE IF TokenTable[headers.authorization[3]].verify = "ok"
            /\ ~TokenUserExists(headers)
    THEN "gone"
    ELSE "none"

\* The cause a client reads off a 401 body of the gate. Being a function of
\* the error/message pair, it can tell two causes apart only if their
\* pairs differ.
CauseOfBody(body) ==
    CASE body.error = Str("Authorization header missing")
         /\ body.message = "Access token is required" -> "missing"
      [] body.error = Str("Invalid authorization format") -> "format"
      [] body.error = Str("Invalid token")
         /\ body.message = "Token cannot be empty" -> "format"
      [] body.error = Str("Authentication failed")
         /\ body.message = "Token has expired" -> "expired"
      [] body.error = Str("Authentication failed")
         /\ body.message = "Invalid token provided" -> "invalid"
      [] body.error = Str("User not found") -> "gone"
      [] OTHER -> "unknown"

RejectedByGate == phase = "done" /\ LastStep = "authenticate"

\* C12: an expired token fails verifyToken as 'Token expired'; and a request
\* the required gate rejects for a missing header, a malformed header, an
\* expired token, an invalid token or a vanished user gets a 401 whose
\* error/message pair names that cause and no other.
C12_CausesDistinguishable ==
    /\ \A t \in DOMAIN TokenTable :
          TokenTable[t].verify = "TokenExpiredError" =>
              /\ VerifyToken(<<t>>).threw
              /\ VerifyToken(<<t>>).error.message = "Token expired"
    /\ (RejectedByGate /\ RejectionCause(req.headers) # "none") =>
          /\ res[1].status = 401
          /\ CauseOfBody(res[1].body) = RejectionCause(req.headers)

C12_Witness ==
    /\ RejectedByGate
    /\ RejectionCause(req.headers) = "expired"
    /\ res[1].body.message = "Token has expired"

\* A getProducts call has returned or thrown.
ListDone == svcPc = "done" /\ svcCall.op = "getProducts"

\* The page number and page size asked for (schema defaults when absent).
RequestedPage ==
    IF "pageNumber" \in DOMAIN svcCall.query THEN svcCall.query.pageNumber ELSE 1
RequestedSize ==
    IF "pageSize" \in DOMAIN svcCall.query THEN svcCall.query.pageSize ELSE 10

\* C13: when the store returns zero rows, whatever the page number and page
\* size, getProducts returns products = [], totalCount = 0, totalPages = 0,
\* hasNextPage = false, hasPreviousPage = false, and does not throw.
C13_EmptyList ==
    (ListDone /\ svcCalls[1].rows = 0) =>
        /\ ~svcResult.threw
        /\ svcResult.value.products = <<>>
        /\ svcResult.value.pagination.totalCount = 0
        /\ svcResult.value.pagination.totalPages = 0
        /\ svcResult.value.pagination.hasNextPage = FALSE
        /\ svcResult.value.pagination.hasPreviousPage = FALSE

\* The store holds rows, but none on the page asked for.
C13_Witness ==
    /\ ListDone
    /\ svcCalls[1].rows = 0
    /\ RequestedPage = 2
    /\ products # <<>>
    /\ ~svcResult.threw
    /\ svcResult.value.pagination.hasPreviousPage = FALSE

\* ceil(a / b): the least n with n * b >= a.
CeilDiv(a, b) == CHOOSE n \in 0..a : n * b >= a /\ \A m \in 0..(n - 1) : m * b < a

\* C14: every successful list result has totalPages = ceil(totalCount /
\* pageSize), hasNextPage = (currentPage < totalPages) and hasPreviousPage =
\* (currentPage > 1), currentPage and pageSize being those asked for.
C14_PaginationMetadata ==
    (ListDone /\ ~svcResult.threw) =>
        LET pagination == svcResult.value.pagination
        IN  /\ pagination.currentPage = RequestedPage
            /\ pagination.pageSize = RequestedSize
            /\ pagination.totalPages = CeilDiv(pagination.totalCount, RequestedSize)
            /\ pagination.hasNextPage = (RequestedPage < pagination.totalPages)
            /\ pagination.hasPreviousPage = (RequestedPage > 1)

\* C14 amended: a successful list result built from a non-empty store page
\* has totalCount = the store's TotalCount, totalPages = ceil(totalCount /
\* pageSize), hasNextPage = (currentPage < totalPages) and hasPreviousPage =
\* (currentPage > 1); a result built from an empty store page has the fixed
\* values 0, 0, false, false instead, so its hasPreviousPage is false on
\* every page, the pages after the first included.
C14_PaginationOfNonEmptyPage ==
    (ListDone /\ ~svcResult.threw) =>
        LET pagination == svcResult.value.pagination
        IN  /\ pagination.currentPage = RequestedPage
            /\ pagination.pageSize = RequestedSize
            /\ IF svcExisting # <<>>
               THEN /\ pagination.totalCount = svcExisting[1].TotalCount
                    /\ pagination.totalPages =
                           CeilDiv(pagination.totalCount, RequestedSize)
                    /\ pagination.hasNextPage = (RequestedPage < pagination.totalPages)
                    /\ pagination.hasPreviousPage = (RequestedPage > 1)
               ELSE /\ pagination.totalPages = 0
                    /\ ~pagination.hasNextPage
                    /\ ~pagination.hasPreviousPage

\* Three rows in pages of two: the first page of two.
C14_Witness ==
    /\ ListDone
    /\ ~svcResult.threw
    /\ Len(svcExisting) = 2
    /\ RequestedSize = 2
    /\ RequestedPage = 1
    /\ svcResult.value.pagination.totalCount = 3
    /\ svcResult.value.pagination.totalPages = 2
    /\ svcResult.value.pagination.hasNextPage

\* The price bounds of the call's query hold for a row.
InPriceRange(row) ==
    /\ "minPrice" \in DOMAIN svcCall.query => svcCall.query.minPrice <= row.price
    /\ "maxPrice" \in DOMAIN svcCall.query => row.price <= svcCall.query.maxPrice

PriceBounded == {"minPrice", "maxPrice"} \cap DOMAIN svcCall.query # {}

\* C15: with minPrice and/or maxPrice given, the products returned are the
\* rows of the store's page within the bounds, in the store's order, while
\* totalCount, totalPages, hasNextPage and hasPreviousPage are those of the
\* store's unfiltered TotalCount.
C15_PricePostFilter ==
    (ListDone /\ ~svcResult.threw /\ PriceBounded) =>
        LET inRange == SelectSeq(svcExisting, InPriceRange)
            returned == svcResult.value.products
            pagination == svcResult.value.pagination
        IN  /\ Len(returned) = Len(inRange)
            /\ \A k \in DOMAIN returned :
                  /\ returned[k].id = inRange[k].id
                  /\ returned[k].price = inRange[k].price
                  /\ returned[k].name = inRange[k].name
            /\ svcExisting # <<>> =>
                  /\ pagination.totalCount = svcExisting[1].TotalCount
                  /\ pagination.totalCount =
                         Cardinality({i \in DOMAIN products :
                             "category" \in DOMAIN svcCall.query
                                 => products[i].category = svcCall.query.category})
                  /\ pagination.totalPages = CeilDiv(pagination.totalCount, RequestedSize)
                  /\ pagination.hasNextPage = (RequestedPage < pagination.totalPages)
                  /\ pagination.hasPreviousPage = (RequestedPage > 1)

\* The filter dropped a row of the page and the counts did not follow.
C15_Witness ==
    /\ ListDone
    /\ ~svcResult.threw
    /\ DOMAIN svcCall.query = {"minPrice", "maxPrice"}
    /\ Len(svcExisting) = 3
    /\ Len(svcResult.value.products) = 1
    /\ svcResult.value.products[1].price = 100
    /\ svcResult.value.pagination.totalCount = 3

\* Callers c and d are both inside deleteProduct for the same id.
BothDeleting(c, d) ==
    /\ c # d
    /\ svcCall[c].op = "deleteProduct"
    /\ svcCall[d].op = "deleteProduct"
    /\ svcCall[c].id = svcCall[d].id

IssuedDelete(c) ==
    \E k \in DOMAIN svcCalls[c] : svcCalls[c][k].proc = "DeleteProduct"

\* C16: two concurrent deleteProduct calls for the same existing id can both
\* stand between their existence check and their DeleteProduct call: each
\* has read the row, neither has issued the delete, and the row is still
\* there. Nothing holds the second call back; when both deletes then reach
\* the store, one finds the row and the other does not, and only the one
\* that found it returns normally.
C16_CheckThenActRace ==
    \A c, d \in Callers :
        BothDeleting(c, d) =>
            /\ (svcPc[c] = "mutate" /\ svcPc[d] = "mutate") =>
                   /\ svcCalls[c][1].rows = 1
                   /\ svcCalls[d][1].rows = 1
                   /\ ~IssuedDelete(c)
                   /\ ~IssuedDelete(d)
                   /\ svcCall[c].id \in DOMAIN products
                   /\ ENABLED RaceMutate(c)
                   /\ ENABLED RaceMutate(d)
            /\ (/\ Len(svcCalls[c]) = 2 /\ Len(svcCalls[d]) = 2
                /\ svcCalls[c][2].reached /\ svcCalls[d][2].reached) =>
                   /\ svcCalls[c][2].found # svcCalls[d][2].found
                   /\ svcResult[c].threw = ~svcCalls[c][2].found
                   /\ svcResult[d].threw = ~svcCalls[d][2].found

\* Both calls have passed the check and neither has deleted.
C16_Witness ==
    /\ BothDeleting(1, 2)
    /\ svcPc[1] = "mutate"
    /\ svcPc[2] = "mutate"
    /\ svcExisting[1] # <<>>
    /\ svcExisting[2] # <<>>
    /\ ~IssuedDelete(1)
    /\ ~IssuedDelete(2)
    /\ svcCall[1].id \in DOMAIN products

UserKeys == {"id", "username", "email", "createdAt", "updatedAt"}

\* The response was written by a handler that returns a user object.
UserResponse(i) ==
    /\ \E h \in {"register", "login", "refreshToken", "getProfile"} : InTrace(h)
    /\ "success" \in DOMAIN res[i].body

\* C17: the user object of every register, login, refresh and profile
\* response has the keys id, username, email, createdAt and updatedAt and
\* no other, although the row the service read may carry passwordHash; and
\* every register, login and refresh result of the service is so for every
\* row of the store.
C17_NoPasswordHash ==
    /\ \A i \in DOMAIN res :
          UserResponse(i) => DOMAIN res[i].body.data.user = UserKeys
    /\ \A id \in DOMAIN users :
          /\ "passwordHash" \in DOMAIN users[id]
          /\ DOMAIN AuthResponse(users[id]).user = UserKeys
          /\ \A password \in {"pw1", "Str0ng!pw"} :
                LET out == Login(users, [username |-> users[id].username,
                                         password |-> password], TRUE)
                IN  ~out.threw => DOMAIN out.value.user = UserKeys

\* A login answered from a row that carries the hash.
C17_Witness ==
    /\ phase = "done"
    /\ InTrace("login")
    /\ Len(res) = 1
    /\ res[1].status = 200
    /\ "passwordHash" \in DOMAIN SP_GetUserByUsername(users, req.body.username)[1]
    /\ res[1].body.data.user.username = req.body.username
    /\ "passwordHash" \notin DOMAIN res[1].body.data.user

\* The logout handler runs in this step.
LogoutStep == AtHandler("logout") /\ trace' = Append(trace, "logout")

\* C18: logout answers 200 and changes no server state, so the token it was
\* called with, accepted by the required gate before, is accepted by the
\* gate again afterwards.
C18_StatelessLogout ==
    [][LogoutStep =>
          /\ users' = users
          /\ products' = products
          /\ nextProductId' = nextProductId
          /\ storeCalls' = storeCalls
          /\ res'[Len(res')].status = 200
          /\ res'[Len(res')].body.data.loggedOut
          /\ GateAccepts(req.headers)
          /\ AuthenticateOutcome(req'.headers, users', TRUE).pass]_vars

\* Logged out, and the token would pass the gate again.
C18_Witness ==
    /\ phase = "done"
    /\ LastStep = "logout"
    /\ res[1].status = 200
    /\ GateAccepts(req.headers)
    /\ AuthenticateOutcome(req.headers, users, TRUE).pass

\* The claims a token carries, when it verifies.
ClaimsOf(t) == TokenTable[t].payload

\* C20: refreshToken fails, issuing nothing, when the old token does not
\* verify or its user is not in the store; otherwise the user it returns is
\* the record read from the store and the new token carries that record's
\* id, username and email, whatever the old token's claims were. The
\* refresh response is the service's result.
C20_RefreshFromStore ==
    /\ \A t \in DOMAIN TokenTable :
          LET out == RefreshToken(users, <<t>>, TRUE)
          IN  IF TokenTable[t].verify # "ok" \/ ClaimsOf(t).userId \notin DOMAIN users
              THEN /\ out.threw
                   /\ RefreshToken(users, <<t>>, FALSE).threw
              ELSE LET record == users[ClaimsOf(t).userId]
                   IN  /\ ~out.threw
                       /\ out.value.user.username = record.username
                       /\ out.value.user.email = record.email
                       /\ out.value.user.id = record.id
                       /\ TokenTable[out.value.token].verify = "ok"
                       /\ ClaimsOf(out.value.token) =
                              [userId |-> record.id, username |-> record.username,
                               email |-> record.email]
    /\ (phase = "done" /\ LastStep = "refreshToken") =>
          /\ res[1].status = 200
          /\ res[1].body.data.user.email = users[req.user.userId].email
          /\ ClaimsOf(res[1].body.data.token).email = users[req.user.userId].email
          /\ \E k \in DOMAIN storeCalls :
                /\ k > 1
                /\ storeCalls[k] = StoreCall("SelectUserById",
                                             [userId |-> req.user.userId])

\* A token issued under the old email is refreshed to one with the current.
C20_Witness ==
    /\ phase = "done"
    /\ LastStep = "refreshToken"
    /\ req.headers.authorization = <<"Bearer", " ", "tokOld">>
    /\ req.user.email # users[req.user.userId].email
    /\ res[1].status = 200
    /\ res[1].body.data.token = "tokA"
    /\ res[1].body.data.user.email = "alice@example.com"

\* The timer callback runs in this step.
TimerStep == timer = "armed" /\ timer' = "fired"

IsTimeoutResponse(r) ==
    /\ r.status = 408
    /\ r.body.error.code = "REQUEST_TIMEOUT"

\* C19: a request that passed the timeout middleware eventually receives a
\* response; when the timer fires before any response was started the guard
\* answers 408 with code REQUEST_TIMEOUT, when it fires after one was
\* started it writes nothing, so a 408 is only ever the first response
\* written for a request.
C19_TimeoutGuard ==
    /\ [][TimerStep =>
            IF res = <<>>
            THEN Len(res') = 1 /\ IsTimeoutResponse(res'[1])
            ELSE res' = res]_vars
    /\ [](\A i \in DOMAIN res : res[i].status = 408 => i = 1)
    /\ (phase # "idle") ~> (res # <<>>)

\* The 408 went out while the handler chain had not answered.
C19_Witness ==
    /\ timer = "fired"
    /\ phase = "chain"
    /\ req.path = "/api/products"
    /\ Len(res) = 1
    /\ IsTimeoutResponse(res[1])

(***************************************************************************)
(* C21: getProductById returns null (no row) when the store returns zero   *)
(* rows and raises the 500 error PRODUCT_FETCH_ERROR only when the store   *)
(* call fails; GET /api/products/:id answers 200 only for a stored         *)
(* product, 404 PRODUCT_NOT_FOUND only for an absent one, and otherwise    *)
(* 500 PRODUCT_FETCH_ERROR.                                                *)
(***************************************************************************)
GetByIdAnswered ==
    /\ phase = "done"
    /\ InTrace("getProductById")

C21_AbsenceIsAValue ==
    /\ \A id \in 1..(MaxProductId + 1) :
          /\ GetProductById(products, id, TRUE) =
                Returned(IF id \in DOMAIN products THEN <<products[id]>> ELSE <<>>)
          /\ LET failed == GetProductById(products, id, FALSE)
             IN  /\ failed.threw
                 /\ failed.error.statusCode = 500
                 /\ failed.error.code = "PRODUCT_FETCH_ERROR"
    /\ GetByIdAnswered =>
          /\ Len(res) = 1
          /\ \/ /\ res[1].status = 200
                /\ req.params.id \in DOMAIN products
                /\ res[1].body.data.id = req.params.id
             \/ /\ res[1].status = 404
                /\ res[1].body.error.code = "PRODUCT_NOT_FOUND"
                /\ req.params.id \notin DOMAIN products
             \/ /\ res[1].status = 500
                /\ res[1].body.error.code = "PRODUCT_FETCH_ERROR"

C21_Witness ==
    /\ GetByIdAnswered
    /\ req.params.id \notin DOMAIN products
    /\ res[1].status = 404
    /\ res[1].body.error.code = "PRODUCT_NOT_FOUND"

(***************************************************************************)
(* C22: every request whose method and path match no route of the routers  *)
(* registered ahead of the error middlewares is answered exactly once,     *)
(* with status 404 and the error envelope carrying code ROUTE_NOT_FOUND.   *)
(* (Requests are those that passed the global middlewares: the body        *)
(* parsers accepted them.)                                                 *)
(***************************************************************************)
NoRouteMatched == phase = "done" /\ Chain(req) = <<>>

DocsRequested ==
    /\ phase = "done"
    /\ SwaggerEnabled
    /\ req.method = "GET"
    /\ req.path \in SwaggerPaths

C24_DocsReachable ==
    DocsRequested =>
        /\ InTrace("swagger")
        /\ ~InTrace("notFoundHandler")
        /\ res[1].status = 200

(***************************************************************************)
(* C23: the limit of every search query that reaches the store is an       *)
(* integer between 1 and 50, and it is 10 when the request has no limit    *)
(* parameter.                                                              *)
(***************************************************************************)
C23_SearchLimitBound ==
    \A i \in DOMAIN storeCalls :
        storeCalls[i].proc = "SearchQuery" =>
            /\ storeCalls[i].input.limit \in 1..50
            /\ ~Has(req.query, "limit") => storeCalls[i].input.limit = 10

(***************************************************************************)
(* C25: when two updateProduct calls on the same id whose partials set     *)
(* disjoint fields have both completed successfully, the stored record     *)
(* carries the fields of both partials.                                    *)
(***************************************************************************)
UpdatedOk(c) ==
    /\ svcPc[c] = "done"
    /\ svcCall[c].op = "updateProduct"
    /\ ~svcResult[c].threw

Carries(row, data) == \A k \in DOMAIN data : row[k] = data[k]

C25_NoLostUpdate ==
    \A c, d \in Callers :
        (/\ c # d
         /\ UpdatedOk(c)
         /\ UpdatedOk(d)
         /\ svcCall[c].id = svcCall[d].id
         /\ DOMAIN svcCall[c].data \cap DOMAIN svcCall[d].data = {}
         /\ svcCall[c].id \in DOMAIN products) =>
            /\ Carries(products[svcCall[c].id], svcCall[c].data)
            /\ Carries(products[svcCall[c].id], svcCall[d].data)

(***************************************************************************)
(* C26: an updateProduct or deleteProduct call whose mutating store call   *)
(* ran and found the product gone (deleted after the call's existence      *)
(* check) fails with the 404 error PRODUCT_NOT_FOUND.                      *)
(***************************************************************************)
MutationFoundNothing(c) ==
    /\ svcPc[c] = "done"
    /\ Len(svcCalls[c]) = 2
    /\ svcCalls[c][2].reached
    /\ ~svcCalls[c][2].found

C26_NotFoundUnderInterleaving ==
    \A c \in Callers :
        MutationFoundNothing(c) =>
            /\ svcResult[c].threw
            /\ svcResult[c].error.statusCode = 404
            /\ svcResult[c].error.code = "PRODUCT_NOT_FOUND"

(***************************************************************************)
(* C27: the required gate answers 401 'User not found' only when the user  *)
(* named by the token is absent from the store; a failure of the identity  *)
(* lookup is not answered as a missing user.                               *)
(***************************************************************************)
AnsweredUserNotFound ==
    /\ RejectedByGate
    /\ res[1].status = 401
    /\ res[1].body.error = Str("User not found")

C27_UserNotFoundOnlyWhenAbsent ==
    AnsweredUserNotFound => RejectionCause(req.headers) = "gone"

(***************************************************************************)
(* C28: under every interleaving of concurrent getPool() calls, a call     *)
(* that returns hands back a pool that was connected when it returned, and *)
(* at most one connection attempt is in progress at any time.              *)
(***************************************************************************)
C28_ConnectedPool ==
    /\ \A c \in PoolCallers :
          poolPc[c] = "returned" => poolGot[c] # <<>> /\ poolGot[c][1].connected
    /\ Cardinality({c \in PoolCallers : poolPc[c] = "attempting"}) <= 1

(***************************************************************************)
(* C29: in every interleaving of the timeout guard with the handler chain  *)
(* at most one response write is made for a request: once the 408 or the   *)
(* handler's response has been sent, neither the handler, nor the error    *)
(* handler, nor the guard writes another.                                  *)
(***************************************************************************)
C29_SingleResponse == Len(res) <= 1

(***************************************************************************)
(* C30: in every result of getStatistics the counts of the priceRanges     *)
(* entries sum to totalProducts, and so do the counts of the categories    *)
(* entries, also when products are created or deleted during the call.     *)
(***************************************************************************)
RECURSIVE SumCounts(_)
SumCounts(rows) ==
    IF rows = <<>> THEN 0 ELSE rows[1].count + SumCounts(Tail(rows))

StatsReturned ==
    /\ svcPc = "done"
    /\ svcCall.op = "getStatistics"
    /\ ~svcResult.threw

C30_StatisticsConsistent ==
    StatsReturned =>
        /\ SumCounts(svcResult.value.priceRanges) = svcResult.value.totalProducts
        /\ SumCounts(svcResult.value.categories) = svcResult.value.totalProducts

====
